---- MODULE Spec2Model ----
(***************************************************************************)
(* Model of the size-mapping resolver of the virtual try-on service        *)
(* (VTryon_Updated/mapping.py) and of the request handlers that call it    *)
(* (VTryon_Updated/app.py).                                                *)
(*                                                                         *)
(* A Python str is a sequence of one-character strings, so that lower(),   *)
(* upper(), strip(), replace() and isalpha() are computed character by     *)
(* character, as Python computes them, and are not the identity.           *)
(***************************************************************************)
EXTENDS Integers, Sequences, FiniteSets, TLC

(***************************************************************************)
(* Bounds of the model.                                                    *)
(***************************************************************************)
\* the most whitespace characters put on each side of an argument
MaxPad == 1
\* the number of request handlers that run the resolver concurrently
NumHandlers == 2

\* the largest max_retries a call of _load_image_from_url is given
MaxRetriesArg == 3

\* the most rows a dataset given to a pipeline has
MaxRows == 2

(***************************************************************************)
(* Python values.  None is the not-found value; a str is a sequence.       *)
(***************************************************************************)
LowerLetters ==
  << "a", "b", "c", "d", "e", "f", "g", "h", "i", "j", "k", "l", "m",
     "n", "o", "p", "q", "r", "s", "t", "u", "v", "w", "x", "y", "z" >>

UpperLetters ==
  << "A", "B", "C", "D", "E", "F", "G", "H", "I", "J", "K", "L", "M",
     "N", "O", "P", "Q", "R", "S", "T", "U", "V", "W", "X", "Y", "Z" >>

Digits == << "0", "1", "2", "3", "4", "5", "6", "7", "8", "9" >>

\* characters str.strip() removes: blank, tab, newline, carriage return
Whitespace == { " ", "\t", "\n", "\r" }

Range(seq) == { seq[i] : i \in 1..Len(seq) }

IndexOf(seq, c) == CHOOSE i \in 1..Len(seq) : seq[i] = c

\* the lowercase of each uppercase letter, the uppercase of each lowercase one
LowerOf == [ c \in Range(UpperLetters) |-> LowerLetters[IndexOf(UpperLetters, c)] ]

UpperOf == [ c \in Range(LowerLetters) |-> UpperLetters[IndexOf(LowerLetters, c)] ]

Letters == Range(LowerLetters) \cup Range(UpperLetters)

\* one character of str.lower() / str.upper()
lower_char(c) == IF c \in DOMAIN LowerOf THEN LowerOf[c] ELSE c

upper_char(c) == IF c \in DOMAIN UpperOf THEN UpperOf[c] ELSE c

\* str.lower()
lower(s) == [ i \in 1..Len(s) |-> lower_char(s[i]) ]

\* str.upper()
upper(s) == [ i \in 1..Len(s) |-> upper_char(s[i]) ]

\* str.isalpha(): at least one character, and every character a letter
isalpha(s) ==
  /\ Len(s) > 0
  /\ \A i \in 1..Len(s) : s[i] \in Letters

\* str.replace(old, ""), for a one-character old
RECURSIVE remove_char(_, _)
remove_char(s, old) ==
  IF s = << >> THEN << >>
  ELSE IF Head(s) = old THEN remove_char(Tail(s), old)
  ELSE << Head(s) >> \o remove_char(Tail(s), old)

RECURSIVE lstrip(_)
lstrip(s) ==
  IF s # << >> /\ Head(s) \in Whitespace THEN lstrip(Tail(s)) ELSE s

RECURSIVE rstrip(_)
rstrip(s) ==
  IF s # << >> /\ s[Len(s)] \in Whitespace
  THEN rstrip(SubSeq(s, 1, Len(s) - 1))
  ELSE s

\* str.strip()
strip(s) == rstrip(lstrip(s))

(***************************************************************************)
(* The string literals of mapping.py.                                      *)
(***************************************************************************)
tshirts == << "t", "s", "h", "i", "r", "t", "s" >>
pants   == << "p", "a", "n", "t", "s" >>
jackets == << "j", "a", "c", "k", "e", "t", "s" >>
shoes   == << "s", "h", "o", "e", "s" >>

male   == << "m", "a", "l", "e" >>
female == << "f", "e", "m", "a", "l", "e" >>

nike   == << "n", "i", "k", "e" >>
adidas == << "a", "d", "i", "d", "a", "s" >>
zara   == << "z", "a", "r", "a" >>

S == << "S" >>
M == << "M" >>
L == << "L" >>

\* the decimal numeral of n, as a size such as "44" is written
Dec(n) == IF n < 10 THEN << Digits[n + 1] >>
          ELSE << Digits[(n \div 10) + 1], Digits[(n % 10) + 1] >>

(***************************************************************************)
(* Python objects carry their type: a str, a dict, None, or an exception.  *)
(***************************************************************************)
PyStr(s)  == [ type |-> "str", v |-> s ]
PyDict(f) == [ type |-> "dict", v |-> f ]
PyNone    == [ type |-> "NoneType", v |-> << >> ]

\* how a call ends: it returns an object or raises an exception
Return(obj) == [ kind |-> "return", value |-> obj ]
Raise(exc)  == [ kind |-> "raise", value |-> [ type |-> exc, v |-> << >> ] ]

\* a dict literal: the pairs key: value
Dict(pairs) ==
  PyDict([ k \in { p[1] : p \in pairs } |-> (CHOOSE p \in pairs : p[1] = k)[2] ])

\* a row whose two target sizes are entered under each other's brand
Row_targets_swapped(size, b1, s1, b2, s2) ==
  << size, Dict({ << b1, PyStr(s2) >>, << b2, PyStr(s1) >> }) >>

\* a row that lost its second target brand
Row_second_target_dropped(size, b1, s1, b2, s2) ==
  << size, Dict({ << b1, PyStr(s1) >> }) >>

\* one innermost row of a table: "size": {"brand1": "size1", "brand2": "size2"}
Row(size, b1, s1, b2, s2) ==
  << size, Dict({ << b1, PyStr(s1) >>, << b2, PyStr(s2) >> }) >>

CATEGORY_SIZE_MAP ==
  Dict({
  << tshirts, Dict({
    << male, Dict({
      << nike, Dict({
        Row(S, adidas, Dec(44), zara, S),
        Row(M, adidas, Dec(46), zara, M),
        Row(L, adidas, Dec(48), zara, L) }) >>,
      << adidas, Dict({
        Row(Dec(44), nike, S, zara, S),
        Row(Dec(46), nike, M, zara, M),
        Row(Dec(48), nike, L, zara, L) }) >>,
      << zara, Dict({
        Row(S, nike, S, adidas, Dec(44)),
        Row(M, nike, M, adidas, Dec(46)),
        Row(L, nike, L, adidas, Dec(48)) }) >> }) >>,
    << female, Dict({
      << nike, Dict({
        Row(S, adidas, Dec(36), zara, S),
        Row(M, adidas, Dec(38), zara, M),
        Row(L, adidas, Dec(40), zara, L) }) >>,
      << adidas, Dict({
        Row(Dec(36), nike, S, zara, S),
        Row(Dec(38), nike, M, zara, M),
        Row(Dec(40), nike, L, zara, L) }) >>,
      << zara, Dict({
        Row(S, nike, S, adidas, Dec(36)),
        Row(M, nike, M, adidas, Dec(38)),
        Row(L, nike, L, adidas, Dec(40)) }) >> }) >> }) >>,
  << pants, Dict({
    << male, Dict({
      << nike, Dict({
        Row(Dec(32), adidas, Dec(32), zara, Dec(32)),
        Row(Dec(34), adidas, Dec(34), zara, Dec(34)),
        Row(Dec(36), adidas, Dec(36), zara, Dec(36)) }) >>,
      << adidas, Dict({
        Row(Dec(32), nike, Dec(32), zara, Dec(32)),
        Row(Dec(34), nike, Dec(34), zara, Dec(34)),
        Row(Dec(36), nike, Dec(36), zara, Dec(36)) }) >>,
      << zara, Dict({
        Row(Dec(32), nike, Dec(32), adidas, Dec(32)),
        Row(Dec(34), nike, Dec(34), adidas, Dec(34)),
        Row(Dec(36), nike, Dec(36), adidas, Dec(36)) }) >> }) >>,
    << female, Dict({
      << nike, Dict({
        Row(Dec(26), adidas, Dec(34), zara, Dec(34)),
        Row(Dec(28), adidas, Dec(36), zara, Dec(36)),
        Row(Dec(30), adidas, Dec(38), zara, Dec(38)) }) >>,
      << adidas, Dict({
        Row(Dec(34), nike, Dec(26), zara, Dec(34)),
        Row(Dec(36), nike, Dec(28), zara, Dec(36)),
        Row(Dec(38), nike, Dec(30), zara, Dec(38)) }) >>,
      << zara, Dict({
        Row(Dec(34), nike, Dec(26), adidas, Dec(34)),
        Row(Dec(36), nike, Dec(28), adidas, Dec(36)),
        Row(Dec(38), nike, Dec(30), adidas, Dec(38)) }) >> }) >> }) >>,
  << jackets, Dict({
    << male, Dict({
      << nike, Dict({
        Row(M, adidas, Dec(46), zara, M),
        Row(L, adidas, Dec(48), zara, L) }) >>,
      << adidas, Dict({
        Row(Dec(46), nike, M, zara, M),
        Row(Dec(48), nike, L, zara, L) }) >>,
      << zara, Dict({
        Row(M, nike, M, adidas, Dec(46)),
        Row(L, nike, L, adidas, Dec(48)) }) >> }) >>,
    << female, Dict({
      << nike, Dict({
        Row(S, adidas, Dec(36), zara, S),
        Row(M, adidas, Dec(38), zara, M),
        Row(L, adidas, Dec(40), zara, L) }) >>,
      << adidas, Dict({
        Row(Dec(36), nike, S, zara, S),
        Row(Dec(38), nike, M, zara, M),
        Row(Dec(40), nike, L, zara, L) }) >>,
      << zara, Dict({
        Row(S, nike, S, adidas, Dec(36)),
        Row(M, nike, M, adidas, Dec(38)),
        Row(L, nike, L, adidas, Dec(40)) }) >> }) >> }) >>,
  << shoes, Dict({
    << male, Dict({
      << nike, Dict({
        Row(Dec(8), adidas, Dec(42), zara, Dec(42)),
        Row(Dec(9), adidas, Dec(43), zara, Dec(43)),
        Row(Dec(10), adidas, Dec(44), zara, Dec(44)) }) >>,
      << adidas, Dict({
        Row(Dec(42), nike, Dec(8), zara, Dec(42)),
        Row(Dec(43), nike, Dec(9), zara, Dec(43)),
        Row(Dec(44), nike, Dec(10), zara, Dec(44)) }) >>,
      << zara, Dict({
        Row(Dec(42), nike, Dec(8), adidas, Dec(42)),
        Row(Dec(43), nike, Dec(9), adidas, Dec(43)),
        Row(Dec(44), nike, Dec(10), adidas, Dec(44)) }) >> }) >>,
    << female, Dict({
      << nike, Dict({
        Row(Dec(6), adidas, Dec(38), zara, Dec(38)),
        Row(Dec(7), adidas, Dec(39), zara, Dec(39)),
        Row(Dec(8), adidas, Dec(40), zara, Dec(40)) }) >>,
      << adidas, Dict({
        Row(Dec(38), nike, Dec(6), zara, Dec(38)),
        Row(Dec(39), nike, Dec(7), zara, Dec(39)),
        Row(Dec(40), nike, Dec(8), zara, Dec(40)) }) >>,
      << zara, Dict({
        Row(Dec(38), nike, Dec(6), adidas, Dec(38)),
        Row(Dec(39), nike, Dec(7), adidas, Dec(39)),
        Row(Dec(40), nike, Dec(8), adidas, Dec(40)) }) >> }) >> }) >> })

LEGACY_SIZE_MAP ==
  Dict({
    << nike, Dict({
      Row(Dec(40), adidas, Dec(44), zara, M),
      Row(Dec(42), adidas, Dec(46), zara, L) }) >>,
    << adidas, Dict({
      Row(Dec(44), nike, Dec(40), zara, M),
      Row(Dec(46), nike, Dec(42), zara, L) }) >> })

(***************************************************************************)
(* mapping.py: the lookups.                                                *)
(***************************************************************************)
\* the value of a numeral
RECURSIVE NumeralValue(_)
NumeralValue(s) ==
  IF s = << >> THEN 0
  ELSE 10 * NumeralValue(SubSeq(s, 1, Len(s) - 1)) + (IndexOf(Digits, s[Len(s)]) - 1)

IsNumeral(s) == Len(s) > 0 /\ \A i \in 1..Len(s) : s[i] \in Range(Digits)

\* a subscript that falls back to a numeric key next to the missing one
SubscriptNearest(obj, key) ==
  IF obj.type # "dict" THEN Raise("TypeError")
  ELSE IF key \in DOMAIN obj.v THEN Return(obj.v[key])
  ELSE LET near == { k \in DOMAIN obj.v :
                       /\ IsNumeral(k) /\ IsNumeral(key)
                       /\ NumeralValue(k) - NumeralValue(key) \in { -1, 1 } }
       IN IF near = {} THEN Raise("KeyError")
          ELSE Return(obj.v[CHOOSE k \in near : \A k2 \in near :
                                       NumeralValue(k) <= NumeralValue(k2)])

\* obj[key]: a dict yields the value stored under key or raises KeyError;
\* a str cannot be subscripted with a str
Subscript(obj, key) ==
  IF obj.type = "dict"
  THEN IF key \in DOMAIN obj.v THEN Return(obj.v[key]) ELSE Raise("KeyError")
  ELSE Raise("TypeError")

\* obj[keys[1]][keys[2]]...: the first subscript that raises ends the chain
RECURSIVE SubscriptChain(_, _)
SubscriptChain(obj, keys) ==
  IF keys = << >> THEN Return(obj)
  ELSE LET r == Subscript(obj, Head(keys))
       IN IF r.kind = "raise" THEN r ELSE SubscriptChain(r.value, Tail(keys))

\* an except clause that names another exception
CaughtIndexError(exc) == exc.type = "IndexError"

\* the except clause of both lookup functions: except KeyError
CaughtByExcept(exc) == exc.type = "KeyError"

\* try: return <r> / except KeyError: return None
TryReturn(r) ==
  IF r.kind = "raise" /\ CaughtByExcept(r.value) THEN Return(PyNone) ELSE r

\* get_mapped_size (legacy): from_size goes through str() only
get_mapped_size(legacy, from_brand, from_size, to_brand) ==
  TryReturn(SubscriptChain(legacy, << lower(from_brand), from_size, lower(to_brand) >>))

\* the category key with its hyphens kept
cat_key_hyphens_kept(category) == strip(lower(category))

\* cat_key = category.lower().replace("-", "").strip()
cat_key(category) == strip(remove_char(lower(category), "-"))

\* gen_key = gender.lower().strip()
gen_key(gender) == strip(lower(gender))

\* the brand key with its letter case kept
brand_key_case_kept(brand) == strip(brand)

\* from_b_key = from_brand.lower().strip(), to_b_key = to_brand.lower().strip()
brand_key(brand) == strip(lower(brand))

\* the size key with letters lowercased instead of uppercased
size_key_lowered(from_size) ==
  LET size_str == strip(from_size)
  IN IF isalpha(size_str) THEN lower(size_str) ELSE size_str

\* the size key as the commented-out lookup took it: str(from_size), case kept
size_key_case_kept(from_size) == strip(from_size)

\* the size key without strip()
size_key_unstripped(from_size) ==
  IF isalpha(from_size) THEN upper(from_size) ELSE from_size

\* size_str = str(from_size).strip(); upper() if size_str.isalpha()
size_key(from_size) ==
  LET size_str == strip(from_size)
  IN IF isalpha(size_str) THEN upper(size_str) ELSE size_str

\* the five keys of the lookup, in the order they are subscripted
KeyPath(category, gender, from_brand, from_size, to_brand) ==
  << cat_key(category), gen_key(gender), brand_key(from_brand),
     size_key(from_size), brand_key(to_brand) >>

\* a resolver that answers a brand mapped to itself with the size it was given
get_mapped_size_by_category_identity(table, category, gender, from_brand, from_size, to_brand) ==
  IF brand_key(from_brand) = brand_key(to_brand)
  THEN Return(PyStr(size_key(from_size)))
  ELSE TryReturn(SubscriptChain(table,
                   KeyPath(category, gender, from_brand, from_size, to_brand)))

get_mapped_size_by_category(table, category, gender, from_brand, from_size, to_brand) ==
  TryReturn(SubscriptChain(table,
              KeyPath(category, gender, from_brand, from_size, to_brand)))

(***************************************************************************)
(* app.py: POST /get-garment-options.  The inventory is the part of the    *)
(* file system the handler probes with os.path.exists: the paths that      *)
(* exist, and among them the files that cannot be read.                    *)
(***************************************************************************)
ASSETS_INVENTORY == << "a", "s", "s", "e", "t", "s", "/", "i", "n", "v", "e", "n", "t", "o", "r", "y", "/" >>

\* the extensions probed for each sku index, in the order of the loop
Extensions == << << ".", "j", "p", "e", "g" >>, << ".", "j", "p", "g" >>, << ".", "p", "n", "g" >> >>

\* the sku indexes the loop probes: for index in [1, 2, 3]
SkuIndexes == << 1, 2, 3 >>

\* os.path.exists(path)
exists(inventory, path) == path \in inventory.paths

\* encode_image_to_base64: None when the file is missing or unreadable,
\* otherwise the encoding of its bytes (here: of what the path holds)
encode_image_to_base64(inventory, path) ==
  IF ~exists(inventory, path) \/ path \in inventory.unreadable
  THEN PyNone
  ELSE PyStr(<< "b64" >> \o path)

\* f"assets/inventory/{target_brand.lower()}/{gender}/{category}"
base_dir(gender, category, target_brand) ==
  ASSETS_INVENTORY \o lower(target_brand) \o << "/" >> \o gender
    \o << "/" >> \o category

\* f"{target_brand.lower()}-{gender_code}-{category}-{final_size}-{index}{ext}"
sku_filename(gender_code, category, target_brand, final_size, index, ext) ==
  lower(target_brand) \o << "-", gender_code, "-" >> \o category \o << "-" >>
    \o final_size \o << "-" >> \o Dec(index) \o ext

\* os.path.join(base_dir, filename), for a filename that is not absolute
path_join(dir, filename) == dir \o << "/" >> \o filename

\* an inner loop that keeps the last existing extension instead of the first
FirstExt_last_kept(inventory, dir, gender_code, category, target_brand, final_size, index) ==
  LET hits == { e \in 1..Len(Extensions) :
                  exists(inventory,
                         path_join(dir, sku_filename(gender_code, category, target_brand,
                                                     final_size, index, Extensions[e]))) }
  IN IF hits = {} THEN 0 ELSE CHOOSE e \in hits : \A f \in hits : e >= f

\* the inner loop: the first extension whose file exists, or 0
FirstExt(inventory, dir, gender_code, category, target_brand, final_size, index) ==
  LET hits == { e \in 1..Len(Extensions) :
                  exists(inventory,
                         path_join(dir, sku_filename(gender_code, category, target_brand,
                                                     final_size, index, Extensions[e]))) }
  IN IF hits = {} THEN 0 ELSE CHOOSE e \in hits : \A f \in hits : e <= f

\* the outer loop from position i on: found_garments, in the order appended
RECURSIVE FindSkus(_, _, _, _, _, _, _)
FindSkus(inventory, dir, gender_code, category, target_brand, final_size, i) ==
  IF i > Len(SkuIndexes) THEN << >>
  ELSE LET index == SkuIndexes[i]
           e == FirstExt(inventory, dir, gender_code, category, target_brand,
                         final_size, index)
           filename == sku_filename(gender_code, category, target_brand,
                                    final_size, index, Extensions[e])
           rest == FindSkus(inventory, dir, gender_code, category, target_brand,
                            final_size, i + 1)
       IN IF e = 0 THEN rest
          ELSE << [ sku_index |-> index,
                    path |-> path_join(dir, filename),
                    filename |-> filename,
                    image_base64 |->
                      encode_image_to_base64(inventory, path_join(dir, filename)) ] >>
               \o rest

\* "if not final_size": None and the empty str and dict are falsy
Falsy(obj) ==
  \/ obj.type = "NoneType"
  \/ obj.type = "str" /\ obj.v = << >>
  \/ obj.type = "dict" /\ DOMAIN obj.v = {}

\* f"{obj}": a str is inserted as it is, any other object by its repr
Formatted(obj) == IF obj.type = "str" THEN obj.v ELSE << "<", obj.type, ">" >>

JSONResponse(status_code, error) ==
  [ status_code |-> status_code, error |-> error,
    mapped_size |-> PyNone, garments |-> << >> ]

\* the paths one sku index passes to os.path.exists, in order: the extensions
\* up to the first hit, and the hit once more inside encode_image_to_base64
SkuProbes(inventory, dir, gender_code, category, target_brand, final_size, index) ==
  LET e == FirstExt(inventory, dir, gender_code, category, target_brand,
                    final_size, index)
      path(k) == path_join(dir, sku_filename(gender_code, category, target_brand,
                                             final_size, index, Extensions[k]))
  IN IF e = 0 THEN [ k \in 1..Len(Extensions) |-> path(k) ]
     ELSE [ k \in 1..e |-> path(k) ] \o << path(e) >>

RECURSIVE LoopProbes(_, _, _, _, _, _, _)
LoopProbes(inventory, dir, gender_code, category, target_brand, final_size, i) ==
  IF i > Len(SkuIndexes) THEN << >>
  ELSE SkuProbes(inventory, dir, gender_code, category, target_brand, final_size,
                 SkuIndexes[i])
       \o LoopProbes(inventory, dir, gender_code, category, target_brand,
                     final_size, i + 1)

\* every path the handler passes to os.path.exists, in the order of the calls
ProbedPaths(table, inventory, gender, category, current_brand, current_size, target_brand) ==
  LET r == get_mapped_size_by_category(table, category, gender, current_brand,
                                       current_size, target_brand)
      dir == base_dir(gender, category, target_brand)
  IN IF r.kind = "raise" \/ Falsy(r.value) THEN << >>
     ELSE IF ~exists(inventory, dir) \/ gender = << >> THEN << dir >>
     ELSE << dir >> \o LoopProbes(inventory, dir, gender[1], category, target_brand,
                                  Formatted(r.value), 1)

\* a handler that looks for the inventory folder before it maps the size
get_garment_options_folder_first(table, inventory, gender, category, current_brand, current_size, target_brand) ==
  LET r == get_mapped_size_by_category(table, category, gender, current_brand,
                                       current_size, target_brand)
      dir == base_dir(gender, category, target_brand)
      found_garments == FindSkus(inventory, dir, gender[1], category, target_brand,
                                 Formatted(r.value), 1)
  IN IF ~exists(inventory, dir)
       THEN Return(JSONResponse(404, "Inventory folder missing"))
     ELSE IF r.kind = "raise" THEN r
     ELSE IF Falsy(r.value)
       THEN Return(JSONResponse(400, "Size mapping not found"))
     ELSE IF found_garments = << >>
       THEN Return(JSONResponse(404, "No garments found"))
     ELSE Return([ status_code |-> 200, error |-> "",
                   mapped_size |-> r.value, garments |-> found_garments ])

\* the handler; an exception it does not catch leaves it as it was raised
get_garment_options(table, inventory, gender, category, current_brand, current_size, target_brand) ==
  LET r == get_mapped_size_by_category(table, category, gender, current_brand,
                                       current_size, target_brand)
      final_size == r.value
      dir == base_dir(gender, category, target_brand)
      found_garments == FindSkus(inventory, dir, gender[1], category, target_brand,
                                 Formatted(final_size), 1)
  IN IF r.kind = "raise" THEN r
     ELSE IF Falsy(final_size)
       THEN Return(JSONResponse(400, "Size mapping not found"))
     ELSE IF ~exists(inventory, dir)
       THEN Return(JSONResponse(404, "Inventory folder missing"))
     ELSE IF gender = << >> THEN Raise("IndexError")
     ELSE IF found_garments = << >>
       THEN Return(JSONResponse(404, "No garments found"))
     ELSE Return([ status_code |-> 200, error |-> "",
                   mapped_size |-> final_size, garments |-> found_garments ])

(***************************************************************************)
(* The arguments of the calls: tokens of the table and tokens outside it,  *)
(* each written in several spellings.                                      *)
(***************************************************************************)
hats   == << "h", "a", "t", "s" >>
unisex == << "u", "n", "i", "s", "e", "x" >>
puma   == << "p", "u", "m", "a" >>
XL     == << "X", "L" >>

BaseCategories == { tshirts, pants, jackets, shoes, hats }
BaseGenders    == { male, female, unisex }
BaseBrands     == { nike, adidas, zara, puma }

\* every size the table stores as a key, and sizes it does not store
BaseSizes ==
  { S, M, L, XL }
  \cup { Dec(n) : n \in { 6, 7, 8, 9, 10, 11, 26, 28, 30, 32, 33, 34,
                          36, 38, 39, 40, 42, 43, 44, 46, 48 } }

IsLetter(c) == c \in Letters

\* "t-shirts" -> "T-Shirts": a capital at the start and after a non-letter
Capitalized(s) ==
  [ i \in 1..Len(s) |->
      IF i = 1 \/ ~IsLetter(s[i - 1]) THEN upper_char(s[i]) ELSE lower_char(s[i]) ]

\* "tshirts" -> "t-shirts"
Hyphenated(s) ==
  IF Len(s) < 2 THEN s ELSE << s[1], "-" >> \o SubSeq(s, 2, Len(s))

Spaces(n) == [ i \in 1..n |-> " " ]

Padded(s, n) == Spaces(n) \o s \o Spaces(n)

Cased(s, case) ==
  CASE case = "lower" -> lower(s)
    [] case = "upper" -> upper(s)
    [] case = "capitalized" -> Capitalized(s)
    [] OTHER -> s

\* a spelling: the letter case, the padding, and a hyphen in the category
Spellings ==
  { sp \in [ case : { "asis", "lower", "upper", "capitalized" },
             pad : 0..MaxPad,
             hyphen : BOOLEAN ] : sp.hyphen => sp.pad = 0 }

Respelled(s, sp) == Padded(Cased(s, sp.case), sp.pad)

ResolverArgs ==
  { [ category   |-> Respelled(IF sp.hyphen THEN Hyphenated(c) ELSE c, sp),
      gender     |-> Respelled(g, sp),
      from_brand |-> Respelled(fb, sp),
      from_size  |-> Respelled(fs, sp),
      to_brand   |-> Respelled(tb, sp) ] :
    c \in BaseCategories, g \in BaseGenders, fb \in BaseBrands,
    fs \in BaseSizes, tb \in BaseBrands, sp \in Spellings }

\* the arguments of POST /get-garment-options: fewer tokens, every spelling
OptionsArgs ==
  { [ category       |-> Respelled(IF sp.hyphen THEN Hyphenated(c) ELSE c, sp),
      gender         |-> Respelled(g, sp),
      current_brand  |-> Respelled(fb, sp),
      current_size   |-> Respelled(fs, sp),
      target_brand   |-> Respelled(tb, sp) ] :
    c \in { tshirts, shoes, hats }, g \in { male, unisex }, fb \in { nike, puma },
    fs \in { S, M, XL, Dec(8), Dec(11) }, tb \in { zara, adidas, puma },
    sp \in Spellings }

\* the inventory directory of a brand, gender and category, and a garment
\* file in it, as the assets are laid out
StockDir(b, g, c) == ASSETS_INVENTORY \o b \o << "/" >> \o g \o << "/" >> \o c

StockFile(b, g, c, size, index, ext) ==
  StockDir(b, g, c) \o << "/" >> \o b \o << "-", g[1], "-" >> \o c \o << "-" >>
    \o size \o << "-" >> \o Dec(index) \o ext

StockDirs ==
  { StockDir(b, g, c) : b \in { nike, adidas, zara }, g \in { male, female },
                        c \in { tshirts, pants, jackets, shoes } }

\* the garment files of every brand, gender, category and size with the
\* given (sku index, extension number) pairs
StockFiles(skus) ==
  { StockFile(b, g, c, size, sku[1], Extensions[sku[2]]) :
      b \in { nike, adidas, zara }, g \in { male, female },
      c \in { tshirts, pants, jackets, shoes }, size \in BaseSizes, sku \in skus }

\* the file systems a request can find: nothing, directories without
\* garments, and two stocked inventories
Inventories ==
  [ none    |-> [ paths |-> {}, unreadable |-> {} ],
    shelves |-> [ paths |-> StockDirs, unreadable |-> {} ],
    partial |-> [ paths |-> StockDirs
                            \cup StockFiles({ << 1, 1 >>, << 1, 3 >>, << 3, 3 >> }),
                  unreadable |-> StockFiles({ << 3, 3 >> }) ],
    full    |-> [ paths |-> StockDirs
                            \cup StockFiles({ << 1, 2 >>, << 2, 3 >>, << 3, 1 >> }),
                  unreadable |-> {} ] ]

LegacyArgs ==
  { [ from_brand |-> Cased(fb, case), from_size |-> fs, to_brand |-> Cased(tb, case) ] :
    fb \in BaseBrands, fs \in BaseSizes, tb \in BaseBrands,
    case \in { "asis", "upper" } }

(***************************************************************************)
(* State.                                                                  *)
(***************************************************************************)
VARIABLES
  category_size_map,  \* the module global CATEGORY_SIZE_MAP
  legacy_size_map,    \* the module global LEGACY_SIZE_MAP
  pc,                 \* "idle": no call in progress; "returned": a call ended
  call,               \* the call that ended: its function and arguments
  ret,                \* how it ended
  h_pc,               \* per request handler: the line its resolver call is at
  h_args,             \* per request handler: the arguments of its call
  h_ret,              \* per request handler: how its call ended
  frames,             \* per call frame: the local variables of the resolver
  t_pc,               \* generate_tryon: the statement the request is at
  t_form,             \* generate_tryon: what the request submitted and finds
  attempt,            \* generate_tryon: the loop variable of the retry loop
  error_str,          \* generate_tryon: str(e) of the exception being handled
  t_events,           \* generate_tryon: the outside calls made so far, in order
  t_ret,              \* generate_tryon: how the request ended
  l_pc,               \* _load_image_from_url: the statement the call is at
  l_args,             \* _load_image_from_url: url's behaviour and max_retries
  l_attempt,          \* _load_image_from_url: the loop variable attempt
  l_events,           \* _load_image_from_url: requests made and how each ended
  l_ret,              \* _load_image_from_url: how the call ended
  a_call,             \* ColorMatchAgent.get_verdict: the call and the model's output
  a_ret,              \* ColorMatchAgent.get_verdict: how the call ended
  p_pc,               \* process_dataset / process_hf_dataset: where the run is
  p_run,              \* the run: which pipeline, how many rows, the detector's setup
  p_idx,              \* the number of rows the loop has taken up
  p_lists,            \* detected_colors, detected_confidences and verdicts
  p_row,              \* what the loop did for the row it took up last
  p_out               \* the CSV written, or the exception that ended the run

seq_vars == << pc, call, ret >>

conc_vars == << h_pc, h_args, h_ret, frames >>

tryon_vars == << t_pc, t_form, attempt, error_str, t_events, t_ret >>

load_vars == << l_pc, l_args, l_attempt, l_events, l_ret >>

agent_vars == << a_call, a_ret >>

pipeline_vars == << p_pc, p_run, p_idx, p_lists, p_row, p_out >>

color_vars == << agent_vars, pipeline_vars >>

vars == << category_size_map, legacy_size_map, pc, call, ret,
           h_pc, h_args, h_ret, frames,
           t_pc, t_form, attempt, error_str, t_events, t_ret,
           l_pc, l_args, l_attempt, l_events, l_ret,
           a_call, a_ret, p_pc, p_run, p_idx, p_lists, p_row, p_out >>

Handlers == 1..NumHandlers

\* a local variable that no statement has assigned yet
Unbound == << "<unbound>" >>

NoLocals ==
  [ cat_key |-> Unbound, gen_key |-> Unbound, from_b_key |-> Unbound,
    to_b_key |-> Unbound, size_key |-> Unbound ]

NoArgs ==
  [ category |-> << >>, gender |-> << >>, from_brand |-> << >>,
    from_size |-> << >>, to_brand |-> << >> ]

NoCall == [ fn |-> "none" ]

\* no request to /generate-tryon yet, and no call of _load_image_from_url
NoForm == [ user_image |-> "none", default_model |-> "missing", garment |-> "missing" ]

NoLoad == [ url |-> << >>, max_retries |-> 0 ]

\* no run of a pipeline yet: nothing set up, the three lists empty, no row
NoRun == [ source |-> "none", rows |-> 0, enable_gpt_fallback |-> FALSE ]

NoLists ==
  [ detected_colors |-> << >>, detected_confidences |-> << >>, verdicts |-> << >> ]

NoRow == [ taken |-> "none" ]

Init ==
  /\ category_size_map = CATEGORY_SIZE_MAP
  /\ legacy_size_map = LEGACY_SIZE_MAP
  /\ pc = "idle"
  /\ call = NoCall
  /\ ret = Return(PyNone)
  /\ h_pc = [ h \in Handlers |-> "idle" ]
  /\ h_args = [ h \in Handlers |-> NoArgs ]
  /\ h_ret = [ h \in Handlers |-> Return(PyNone) ]
  /\ frames = [ h \in Handlers |-> NoLocals ]
  /\ t_pc = "idle"
  /\ t_form = NoForm
  /\ attempt = 0
  /\ error_str = << >>
  /\ t_events = << >>
  /\ t_ret = Return(PyNone)
  /\ l_pc = "idle"
  /\ l_args = NoLoad
  /\ l_attempt = 0
  /\ l_events = << >>
  /\ l_ret = Return(PyNone)
  /\ a_call = NoCall
  /\ a_ret = Return(PyNone)
  /\ p_pc = "idle"
  /\ p_run = NoRun
  /\ p_idx = 0
  /\ p_lists = NoLists
  /\ p_row = NoRow
  /\ p_out = Return(PyNone)

\* a defaultdict table: subscripting a missing category inserts it
MapAfterLookup_defaultdict(map, keys) ==
  IF keys[1] \in DOMAIN map.v THEN map
  ELSE PyDict(map.v @@ (keys[1] :> PyDict(<< >>)))

\* what a lookup leaves in the dict it reads: a plain dict is not written
\* by a subscript, found or not
MapAfterLookup(map, keys) == map

\* one call of get_mapped_size_by_category
CallResolver(a) ==
  /\ pc = "idle"
  /\ call' = [ fn |-> "get_mapped_size_by_category", args |-> a ]
  /\ ret' = get_mapped_size_by_category(category_size_map, a.category, a.gender,
                                        a.from_brand, a.from_size, a.to_brand)
  /\ category_size_map' =
       MapAfterLookup(category_size_map,
                      KeyPath(a.category, a.gender, a.from_brand, a.from_size, a.to_brand))
  /\ pc' = "returned"
  /\ UNCHANGED << legacy_size_map, conc_vars, tryon_vars, load_vars,
               color_vars >>

\* one call of get_mapped_size
CallLegacy(a) ==
  /\ pc = "idle"
  /\ call' = [ fn |-> "get_mapped_size", args |-> a ]
  /\ ret' = get_mapped_size(legacy_size_map, a.from_brand, a.from_size, a.to_brand)
  /\ legacy_size_map' =
       MapAfterLookup(legacy_size_map,
                      << lower(a.from_brand), a.from_size, lower(a.to_brand) >>)
  /\ pc' = "returned"
  /\ UNCHANGED << category_size_map, conc_vars, tryon_vars, load_vars,
               color_vars >>

\* one request to POST /get-garment-options, with the inventory it finds
CallOptions(a, inv) ==
  /\ pc = "idle"
  /\ call' = [ fn |-> "get_garment_options", args |-> a, inventory |-> inv,
               probes |-> ProbedPaths(category_size_map, Inventories[inv], a.gender,
                                      a.category, a.current_brand, a.current_size,
                                      a.target_brand) ]
  /\ ret' = get_garment_options(category_size_map, Inventories[inv], a.gender, a.category,
                                a.current_brand, a.current_size, a.target_brand)
  /\ category_size_map' =
       MapAfterLookup(category_size_map,
                      KeyPath(a.category, a.gender, a.current_brand, a.current_size,
                              a.target_brand))
  /\ pc' = "returned"
  /\ UNCHANGED << legacy_size_map, conc_vars, tryon_vars, load_vars,
               color_vars >>

(***************************************************************************)
(* GET /get-supported-sizes.  The handler calls mp.get_supported_sizes;    *)
(* Python looks the name up in the module before it calls anything.        *)
(***************************************************************************)
\* the names module mapping binds at its top level
mp_names ==
  { "LEGACY_SIZE_MAP", "get_mapped_size", "CATEGORY_SIZE_MAP",
    "get_mapped_size_by_category" }

\* the ways the call mp.<name>(...) of the handler can end: an unbound name
\* ends it with AttributeError; a bound one could hand back a list of sizes
\* or raise the KeyError the handler expects
mp_call(name) ==
  IF name \in mp_names
  THEN { Return(sizes) : sizes \in { << >>, << S, M, L >> } } \cup { Raise("KeyError") }
  ELSE { Raise("AttributeError") }

\* the handler around the outcome r of the call
get_supported_sizes(r) ==
  IF r.kind = "return" THEN Return([ status |-> "success", sizes |-> r.value ])
  ELSE IF CaughtByExcept(r.value)
    THEN Return(JSONResponse(400, "Invalid category/gender/brand combination"))
  ELSE r

SupportedArgs ==
  { [ category |-> Respelled(c, sp), gender |-> Respelled(g, sp),
      brand    |-> Respelled(b, sp) ] :
    c \in { tshirts, hats }, g \in { male, unisex }, b \in { nike, puma },
    sp \in { s \in Spellings : ~s.hyphen /\ s.pad = 0 } }

\* one request to GET /get-supported-sizes
CallSupportedSizes(a) ==
  /\ pc = "idle"
  /\ call' = [ fn |-> "get_supported_sizes", args |-> a ]
  /\ \E r \in mp_call("get_supported_sizes") : ret' = get_supported_sizes(r)
  /\ pc' = "returned"
  /\ UNCHANGED << category_size_map, legacy_size_map, conc_vars, tryon_vars,
               load_vars,
               color_vars >>

\* the caller has the result; the next call can start
Resume ==
  /\ pc = "returned"
  /\ pc' = "idle"
  /\ call' = NoCall
  /\ ret' = Return(PyNone)
  /\ UNCHANGED << category_size_map, legacy_size_map, conc_vars, tryon_vars,
               load_vars,
               color_vars >>

\* a call starts only when none is in progress (pc = "idle" is each call's
\* guard; it is tested here before the arguments are drawn)
Next ==
  \/ pc = "idle" /\ \E a \in ResolverArgs : CallResolver(a)
  \/ pc = "idle" /\ \E a \in LegacyArgs : CallLegacy(a)
  \/ pc = "idle" /\ \E a \in OptionsArgs, inv \in DOMAIN Inventories :
                      CallOptions(a, inv)
  \/ pc = "idle" /\ \E a \in SupportedArgs : CallSupportedSizes(a)
  \/ Resume

Spec == Init /\ [][Next]_vars

(***************************************************************************)
(* Concurrent request handlers, each running get_mapped_size_by_category   *)
(* statement by statement in a call frame of its own, in any interleaving. *)
(***************************************************************************)
\* the calls the handlers make
ConcurrentArgs ==
  { [ category |-> tshirts, gender |-> male, from_brand |-> nike,
      from_size |-> << "s" >>, to_brand |-> zara ],
    [ category |-> << "T", "-", "S", "h", "i", "r", "t", "s" >>, gender |-> << "M", "a", "l", "e" >>,
      from_brand |-> << "N", "i", "k", "e" >>, from_size |-> M,
      to_brand |-> << "A", "d", "i", "d", "a", "s" >> ],
    [ category |-> pants, gender |-> female, from_brand |-> adidas,
      from_size |-> Padded(Dec(34), 1), to_brand |-> nike ],
    [ category |-> shoes, gender |-> male, from_brand |-> nike,
      from_size |-> Dec(11), to_brand |-> adidas ],
    [ category |-> hats, gender |-> male, from_brand |-> nike,
      from_size |-> M, to_brand |-> zara ],
    [ category |-> jackets, gender |-> male, from_brand |-> nike,
      from_size |-> M, to_brand |-> nike ] }

\* a frame that every call uses: the locals as module globals
SharedFrame(h) == 1

\* the frame that holds the locals of handler h's call: one per call
FrameOf(h) == h

\* the call starts: the arguments are bound in a fresh frame
Invoke(h, a) ==
  /\ h_pc[h] = "idle"
  /\ h_args' = [ h_args EXCEPT ![h] = a ]
  /\ h_pc' = [ h_pc EXCEPT ![h] = "L237" ]
  /\ UNCHANGED << category_size_map, legacy_size_map, seq_vars, h_ret, frames,
               tryon_vars, load_vars,
               color_vars >>

\* lines 237-238: cat_key and gen_key
NormalizeCategoryGender(h) ==
  /\ h_pc[h] = "L237"
  /\ frames' = [ frames EXCEPT ![FrameOf(h)].cat_key = cat_key(h_args[h].category),
                               ![FrameOf(h)].gen_key = gen_key(h_args[h].gender) ]
  /\ h_pc' = [ h_pc EXCEPT ![h] = "L241" ]
  /\ UNCHANGED << category_size_map, legacy_size_map, seq_vars, h_args, h_ret,
               tryon_vars, load_vars,
               color_vars >>

\* lines 241-242: from_b_key and to_b_key
NormalizeBrands(h) ==
  /\ h_pc[h] = "L241"
  /\ frames' = [ frames EXCEPT ![FrameOf(h)].from_b_key = brand_key(h_args[h].from_brand),
                               ![FrameOf(h)].to_b_key = brand_key(h_args[h].to_brand) ]
  /\ h_pc' = [ h_pc EXCEPT ![h] = "L247" ]
  /\ UNCHANGED << category_size_map, legacy_size_map, seq_vars, h_args, h_ret,
               tryon_vars, load_vars,
               color_vars >>

\* lines 247-251: size_key
NormalizeSize(h) ==
  /\ h_pc[h] = "L247"
  /\ frames' = [ frames EXCEPT ![FrameOf(h)].size_key = size_key(h_args[h].from_size) ]
  /\ h_pc' = [ h_pc EXCEPT ![h] = "L254" ]
  /\ UNCHANGED << category_size_map, legacy_size_map, seq_vars, h_args, h_ret,
               tryon_vars, load_vars,
               color_vars >>

\* lines 254-260: the lookup with the keys the frame holds, and the return
Lookup(h) ==
  /\ h_pc[h] = "L254"
  /\ LET f == frames[FrameOf(h)]
         keys == << f.cat_key, f.gen_key, f.from_b_key, f.size_key, f.to_b_key >>
     IN /\ h_ret' = [ h_ret EXCEPT ![h] = TryReturn(SubscriptChain(category_size_map, keys)) ]
        /\ category_size_map' = MapAfterLookup(category_size_map, keys)
  /\ h_pc' = [ h_pc EXCEPT ![h] = "done" ]
  /\ UNCHANGED << legacy_size_map, seq_vars, h_args, frames, tryon_vars, load_vars,
               color_vars >>

\* the handler has the result: the frame is gone, the next request can come
Finish(h) ==
  /\ h_pc[h] = "done"
  /\ h_pc' = [ h_pc EXCEPT ![h] = "idle" ]
  /\ h_args' = [ h_args EXCEPT ![h] = NoArgs ]
  /\ h_ret' = [ h_ret EXCEPT ![h] = Return(PyNone) ]
  /\ frames' = [ frames EXCEPT ![FrameOf(h)] = NoLocals ]
  /\ UNCHANGED << category_size_map, legacy_size_map, seq_vars, tryon_vars, load_vars,
               color_vars >>

NextConcurrent ==
  \E h \in Handlers :
    \/ \E a \in ConcurrentArgs : Invoke(h, a)
    \/ NormalizeCategoryGender(h)
    \/ NormalizeBrands(h)
    \/ NormalizeSize(h)
    \/ Lookup(h)
    \/ Finish(h)

SpecConcurrent == Init /\ [][NextConcurrent]_vars

(***************************************************************************)
(* What the table stores, read off the table level by level.               *)
(***************************************************************************)
\* every complete key path << category, gender, from_brand, from_size, to_brand >>
StoredPaths(table) ==
  UNION { UNION { UNION { UNION {
    { << c, g, b, s, tb >> : tb \in DOMAIN table.v[c].v[g].v[b].v[s].v } :
      s \in DOMAIN table.v[c].v[g].v[b].v } :
      b \in DOMAIN table.v[c].v[g].v } :
      g \in DOMAIN table.v[c].v } :
      c \in DOMAIN table.v }

\* the target size stored under a complete key path
StoredSize(table, p) == table.v[p[1]].v[p[2]].v[p[3]].v[p[4]].v[p[5]]

\* the complete key paths of the table as it is defined
DefinedPaths == StoredPaths(CATEGORY_SIZE_MAP)

\* a call of get_mapped_size_by_category has ended
ResolverReturned == pc = "returned" /\ call.fn = "get_mapped_size_by_category"

\* the same call with other arguments
Resolve(category, gender, from_brand, from_size, to_brand) ==
  get_mapped_size_by_category(category_size_map, category, gender, from_brand,
                              from_size, to_brand)

\* the key path of the call that ended
CallPath ==
  KeyPath(call.args.category, call.args.gender, call.args.from_brand,
          call.args.from_size, call.args.to_brand)

\* the call returned the str s
ReturnedSize(s) == ret.kind = "return" /\ ret.value.type = "str" /\ ret.value.v = s

\* the call returned None
ReturnedNone == ret.kind = "return" /\ ret.value.type = "NoneType"

ArgsAre(c, g, fb, fs, tb) ==
  call.args = [ category |-> c, gender |-> g, from_brand |-> fb,
                from_size |-> fs, to_brand |-> tb ]

\* spellings of one token: lowercase, and as it is, uppercase and capitalized
\* between n blanks
SpellingsOf(s, n) ==
  { lower(s) }
  \cup { Padded(Cased(s, case), n) : case \in { "asis", "upper", "capitalized" } }

(***************************************************************************)
(* C1: a call whose five arguments are exactly a key path stored in        *)
(* CATEGORY_SIZE_MAP returns exactly the size stored under that path;      *)
(* tshirts/male/nike/S to adidas gives "44" and pants/female/adidas/34 to  *)
(* nike gives "26".                                                        *)
(***************************************************************************)
C1_StoredPathReturnsStoredSize ==
  ResolverReturned =>
    LET a == call.args
        p == << a.category, a.gender, a.from_brand, a.from_size, a.to_brand >>
    IN /\ p \in DefinedPaths => ReturnedSize(StoredSize(CATEGORY_SIZE_MAP, p).v)
       /\ ArgsAre(tshirts, male, nike, S, adidas) => ReturnedSize(Dec(44))
       /\ ArgsAre(pants, female, adidas, Dec(34), nike) => ReturnedSize(Dec(26))

C1_Witness ==
  /\ ResolverReturned
  /\ ArgsAre(pants, female, adidas, Dec(34), nike)
  /\ ReturnedSize(Dec(26))

(***************************************************************************)
(* C2: a call with string arguments never raises and never returns an      *)
(* inner mapping; whenever the normalized key path is not a complete path  *)
(* of the table (a key absent at its level, such as category "hats"), it   *)
(* returns None.                                                           *)
(***************************************************************************)
C2_NeverRaisesNoneWhenAbsent ==
  ResolverReturned =>
    /\ ret.kind = "return"
    /\ ret.value.type \in { "str", "NoneType" }
    /\ CallPath \notin DefinedPaths => ReturnedNone

C2_Witness ==
  /\ ResolverReturned
  /\ CallPath[1] = hats
  /\ ReturnedNone

(***************************************************************************)
(* C3: for a from_size made only of letters, the lowercase, uppercase and  *)
(* mixed-case spellings of it give the same result, the other arguments    *)
(* equal; tshirts/male/nike with size "s" to zara gives "S".               *)
(***************************************************************************)
C3_AlphabeticSizeAnyCase ==
  ResolverReturned =>
    LET a == call.args
    IN /\ isalpha(a.from_size) =>
            \A case \in { "lower", "upper", "capitalized" } :
              Resolve(a.category, a.gender, a.from_brand,
                      Cased(a.from_size, case), a.to_brand) = ret
       /\ ArgsAre(tshirts, male, nike, << "s" >>, zara) => ReturnedSize(S)

C3_Witness ==
  /\ ResolverReturned
  /\ ArgsAre(tshirts, male, nike, << "s" >>, zara)
  /\ ReturnedSize(S)

(***************************************************************************)
(* C4: a from_size that is not purely alphabetic is only stripped of       *)
(* surrounding whitespace: the lookup key is the stripped text unchanged,  *)
(* and the padded and the unpadded size (" 42 " and "42") give the same    *)
(* result for every combination of the other arguments.                    *)
(***************************************************************************)
C4_NumericSizeOnlyStripped ==
  ResolverReturned =>
    LET a == call.args
        bare == strip(a.from_size)
    IN ~isalpha(bare) =>
         /\ CallPath[4] = bare
         /\ \A k \in 0..(MaxPad + 1) :
              Resolve(a.category, a.gender, a.from_brand, Padded(bare, k),
                      a.to_brand) = ret

C4_Witness ==
  /\ ResolverReturned
  /\ call.args.from_size = Padded(Dec(42), 1)
  /\ CallPath[1] = shoes
  /\ ReturnedSize(Dec(8))

(***************************************************************************)
(* C5: the category is lowercased and every hyphen is removed before the   *)
(* lookup: "T-Shirts", "t-shirts" and "tshirts" address the "tshirts"      *)
(* table, and spellings of a category that differ in letter case or        *)
(* hyphens give the same result for the same remaining arguments.          *)
(***************************************************************************)
TShirtSpellings ==
  { << "T", "-", "S", "h", "i", "r", "t", "s" >>,
    << "t", "-", "s", "h", "i", "r", "t", "s" >>,
    tshirts }

C5_CategoryCaseAndHyphens ==
  ResolverReturned =>
    LET a == call.args
        same(c) == Resolve(c, a.gender, a.from_brand, a.from_size, a.to_brand) = ret
    IN /\ \A c \in TShirtSpellings : cat_key(c) = tshirts
       /\ a.category \in TShirtSpellings => \A c \in TShirtSpellings : same(c)
       /\ \A case \in { "lower", "upper", "capitalized" } :
            /\ same(Cased(a.category, case))
            /\ same(Cased(Hyphenated(a.category), case))
            /\ same(Cased(remove_char(a.category, "-"), case))

C5_Witness ==
  /\ ResolverReturned
  /\ call.args.category = << "T", "-", "S", "h", "i", "r", "t", "s" >>
  /\ ret.kind = "return" /\ ret.value.type = "str"

(***************************************************************************)
(* C6: gender, from_brand and to_brand are lowercased and trimmed before   *)
(* the lookup: calls that differ only in the letter case or surrounding    *)
(* whitespace of these arguments return the same result ("Nike", " NIKE "  *)
(* and "nike").                                                            *)
(***************************************************************************)
C6_GenderAndBrandsCaseAndBlanks ==
  ResolverReturned =>
    LET a == call.args
    IN /\ \A g \in SpellingsOf(a.gender, MaxPad) :
            Resolve(a.category, g, a.from_brand, a.from_size, a.to_brand) = ret
       /\ \A fb \in SpellingsOf(a.from_brand, MaxPad) :
            Resolve(a.category, a.gender, fb, a.from_size, a.to_brand) = ret
       /\ \A tb \in SpellingsOf(a.to_brand, MaxPad) :
            Resolve(a.category, a.gender, a.from_brand, a.from_size, tb) = ret
       /\ \A case \in { "lower", "upper", "capitalized" } :
            Resolve(a.category, Padded(Cased(a.gender, case), MaxPad),
                    Padded(Cased(a.from_brand, case), MaxPad), a.from_size,
                    Padded(Cased(a.to_brand, case), MaxPad)) = ret
       /\ CallPath[2] = strip(lower(a.gender))
       /\ CallPath[3] = strip(lower(a.from_brand))
       /\ CallPath[5] = strip(lower(a.to_brand))

C6_Witness ==
  /\ ResolverReturned
  /\ call.args.from_brand = << " ", "N", "I", "K", "E", " " >>
  /\ call.args.gender = << " ", "M", "A", "L", "E", " " >>
  /\ ret.kind = "return" /\ ret.value.type = "str"

(***************************************************************************)
(* C7: a call returns a size if and only if its five normalized tokens are *)
(* a complete path stored in CATEGORY_SIZE_MAP; a size that is not         *)
(* literally a stored key ("11" under shoes/male/nike, or "33" between the *)
(* stored 32 and 34) yields None: no nearest size, no interpolation.       *)
(***************************************************************************)
C7_SizeIffStoredPath ==
  ResolverReturned =>
    /\ (ret.kind = "return" /\ ret.value.type = "str")
         <=> CallPath \in DefinedPaths
    /\ CallPath[4] \in { Dec(11), Dec(33) } => ReturnedNone

C7_Witness ==
  /\ ResolverReturned
  /\ ArgsAre(shoes, male, nike, Dec(11), adidas)
  /\ ReturnedNone

(***************************************************************************)
(* C8: the table holds no identity entry: whenever a call can start, no    *)
(* path the table stores maps a brand to itself; and a call whose to_brand *)
(* equals its from_brand after normalization returns None                  *)
(* (jackets/male/nike/M to nike).                                          *)
(***************************************************************************)
C8_NoIdentityEntries ==
  /\ pc = "idle" => \A p \in StoredPaths(category_size_map) : p[3] # p[5]
  /\ ResolverReturned /\ CallPath[3] = CallPath[5] => ReturnedNone

C8_Witness ==
  /\ ResolverReturned
  /\ ArgsAre(jackets, male, nike, M, nike)
  /\ ReturnedNone

(***************************************************************************)
(* C9: CATEGORY_SIZE_MAP is never written after module load: after any     *)
(* sequence of calls of get_mapped_size_by_category, get_mapped_size and   *)
(* POST /get-garment-options, successful or failing, the table holds       *)
(* exactly the entries it was defined with.                                *)
(***************************************************************************)
C9_TableNeverWritten == category_size_map = CATEGORY_SIZE_MAP

C9_Witness ==
  /\ pc = "returned"
  /\ call.fn = "get_garment_options"
  /\ ret.kind = "return" /\ ret.value.status_code = 400
  /\ category_size_map = CATEGORY_SIZE_MAP

(***************************************************************************)
(* C10: concurrent calls do not disturb each other: in every interleaving  *)
(* of any number of handlers, the call of each handler ends as the same    *)
(* call ends when it runs alone, and the table is as it was defined.       *)
(***************************************************************************)
C10_ConcurrentCallsAsAlone ==
  \A h \in Handlers :
    h_pc[h] = "done" =>
      /\ h_ret[h] = get_mapped_size_by_category(CATEGORY_SIZE_MAP, h_args[h].category,
                      h_args[h].gender, h_args[h].from_brand, h_args[h].from_size,
                      h_args[h].to_brand)
      /\ category_size_map = CATEGORY_SIZE_MAP

\* two handlers ended calls with different results, one found, one not found
C10_Witness ==
  \E h1, h2 \in Handlers :
    /\ h1 # h2
    /\ h_pc[h1] = "done" /\ h_pc[h2] = "done"
    /\ h_args[h1].from_size = << "s" >>
    /\ h_ret[h1].kind = "return" /\ h_ret[h1].value.type = "str" /\ h_ret[h1].value.v = S
    /\ h_args[h2].category = hats
    /\ h_ret[h2].kind = "return" /\ h_ret[h2].value.type = "NoneType"

(***************************************************************************)
(* C11: the table is reciprocal: for every stored path (category, gender,  *)
(* brand A, size s) that maps brand B to size t, the table stores the path *)
(* (category, gender, brand B, size t), and that entry maps brand A back   *)
(* to s.                                                                   *)
(***************************************************************************)
\* the path that leads back from the target of the stored path p
ReversePath(table, p) == << p[1], p[2], p[5], StoredSize(table, p).v, p[3] >>

C11_TableReciprocal ==
  pc = "idle" =>
    \A p \in StoredPaths(category_size_map) :
      /\ ReversePath(category_size_map, p) \in StoredPaths(category_size_map)
      /\ StoredSize(category_size_map, ReversePath(category_size_map, p)).v = p[4]

C11_Witness ==
  /\ pc = "idle"
  /\ << shoes, female, nike, Dec(8), adidas >> \in StoredPaths(category_size_map)
  /\ ReversePath(category_size_map, << shoes, female, nike, Dec(8), adidas >>)
       = << shoes, female, adidas, Dec(40), nike >>
  /\ StoredSize(category_size_map, << shoes, female, adidas, Dec(40), nike >>).v = Dec(8)

(***************************************************************************)
(* C12, as claimed: the data is not symmetric: some stored path resolves   *)
(* brand A to brand B, but resolving the resulting size from B back to A   *)
(* yields None.                                                            *)
(***************************************************************************)
C12_SomeResolutionNotReversible ==
  \E p \in StoredPaths(category_size_map) :
    LET there == Resolve(p[1], p[2], p[3], p[4], p[5])
        back == Resolve(p[1], p[2], p[5], there.value.v, p[3])
    IN /\ there.kind = "return" /\ there.value.type = "str"
       /\ back.kind = "return" /\ back.value.type = "NoneType"

(***************************************************************************)
(* C12, amended: the data is symmetric: whenever a call resolves brand A   *)
(* to brand B, resolving the returned size from B back to A returns the    *)
(* size key of the first call; only a brand mapped to itself is absent.    *)
(***************************************************************************)
C12_EveryResolutionReversible ==
  ResolverReturned /\ ret.kind = "return" /\ ret.value.type = "str" =>
    LET a == call.args
        back == Resolve(a.category, a.gender, a.to_brand, ret.value.v, a.from_brand)
    IN /\ back.kind = "return" /\ back.value.type = "str"
       /\ back.value.v = CallPath[4]
       /\ CallPath[3] # CallPath[5]

C12_Witness ==
  /\ ResolverReturned
  /\ ArgsAre(tshirts, male, zara, << "l" >>, adidas)
  /\ ReturnedSize(Dec(48))
  /\ Resolve(tshirts, male, adidas, Dec(48), zara) = Return(PyStr(L))

(***************************************************************************)
(* POST /get-garment-options: a request has been answered.                 *)
(***************************************************************************)
OptionsReturned == pc = "returned" /\ call.fn = "get_garment_options"

\* what the resolver yields for the parameters of the request
OptionsResolved ==
  Resolve(call.args.category, call.args.gender, call.args.current_brand,
          call.args.current_size, call.args.target_brand)

\* the answer to the same request on another file system
OptionsOn(inv) ==
  get_garment_options(category_size_map, Inventories[inv], call.args.gender,
                      call.args.category, call.args.current_brand,
                      call.args.current_size, call.args.target_brand)

(***************************************************************************)
(* C13: POST /get-garment-options answers 400 "Size mapping not found"     *)
(* exactly when the resolver yields None for the submitted parameters; it  *)
(* then has probed no path, answers the same on every file system and      *)
(* raises nothing; a resolved size is never answered with 400, and no      *)
(* target size the table stores is empty.                                  *)
(***************************************************************************)
C13_BadRequestIffNotFound ==
  /\ pc = "idle" =>
       \A p \in StoredPaths(category_size_map) :
         ~Falsy(StoredSize(category_size_map, p))
  /\ OptionsReturned =>
       /\ ret.kind = "return"
       /\ ret.value.status_code = 400 <=> OptionsResolved = Return(PyNone)
       /\ ret.value.status_code = 400 =>
            /\ ret.value.error = "Size mapping not found"
            /\ call.probes = << >>
            /\ \A inv \in DOMAIN Inventories : OptionsOn(inv) = ret

C13_Witness ==
  /\ OptionsReturned
  /\ call.inventory = "full"
  /\ call.args.current_size = XL
  /\ cat_key(call.args.category) = tshirts
  /\ ret.kind = "return" /\ ret.value.status_code = 400

(***************************************************************************)
(* GET /get-supported-sizes: a request has been answered.                  *)
(***************************************************************************)
SupportedReturned == pc = "returned" /\ call.fn = "get_supported_sizes"

\* the sizes the table stores for the brand of the request, if it has any
SupportedPresent ==
  /\ cat_key(call.args.category) \in DOMAIN category_size_map.v
  /\ gen_key(call.args.gender)
       \in DOMAIN category_size_map.v[cat_key(call.args.category)].v
  /\ brand_key(call.args.brand)
       \in DOMAIN category_size_map.v[cat_key(call.args.category)]
                                  .v[gen_key(call.args.gender)].v

SupportedStored ==
  DOMAIN category_size_map.v[cat_key(call.args.category)]
                          .v[gen_key(call.args.gender)]
                          .v[brand_key(call.args.brand)].v

(***************************************************************************)
(* C14: GET /get-supported-sizes never ends in an unhandled error: it      *)
(* answers "success" with the sizes of a category, gender and brand the    *)
(* table holds, and 400 for a combination the table does not hold.         *)
(***************************************************************************)
C14_SupportedSizesAnswered ==
  SupportedReturned =>
    /\ ret.kind = "return"
    /\ IF SupportedPresent
       THEN /\ "status" \in DOMAIN ret.value
            /\ ret.value.status = "success"
            /\ Range(ret.value.sizes) = SupportedStored
       ELSE /\ "status_code" \in DOMAIN ret.value
            /\ ret.value.status_code = 400

\* a request for a stored combination ends in the unhandled AttributeError
C14_Unhandled ==
  /\ SupportedReturned
  /\ SupportedPresent
  /\ ret = Raise("AttributeError")

\* sub in s, for two Python strings
Contains(s, sub) ==
  \E i \in 0..(Len(s) - Len(sub)) : SubSeq(s, i + 1, i + Len(sub)) = sub

\* the request was resolved to a size
OptionsSizeFound ==
  /\ OptionsReturned
  /\ OptionsResolved.kind = "return"
  /\ ~Falsy(OptionsResolved.value)

\* the directory the request is served from, and in it the file of a sku
\* index with the e-th extension
OptionsDir ==
  base_dir(call.args.gender, call.args.category, call.args.target_brand)

OptionsFile(index, e) ==
  path_join(OptionsDir,
            sku_filename(call.args.gender[1], call.args.category,
                         call.args.target_brand, Formatted(OptionsResolved.value),
                         index, Extensions[e]))

\* the (sku index, extension number) a probed path stands for
ProbeKey(path) ==
  CHOOSE k \in Range(SkuIndexes) \X (1..Len(Extensions)) :
    path = OptionsFile(k[1], k[2])

KeyLeq(k, l) == k[1] < l[1] \/ (k[1] = l[1] /\ k[2] <= l[2])

(***************************************************************************)
(* C15: once the size is resolved, the handler probes the sku indexes      *)
(* 1, 2, 3 in order and for each the extensions .jpeg, .jpg, .png in       *)
(* order, keeping the first existing file of each index.  A success lists  *)
(* 1 to 3 garments with ascending sku_index, each the first existing file  *)
(* of its index with the resolved size in its name; the answer is 404      *)
(* exactly when the directory is missing or no file matches.               *)
(***************************************************************************)
C15_FirstExistingFilePerSku ==
  OptionsSizeFound =>
    LET inv == Inventories[call.inventory]
        exts == 1..Len(Extensions)
        Stocked(n) == \E e \in exts : exists(inv, OptionsFile(n, e))
        g == ret.value.garments
        p == call.probes
    IN /\ ret.kind = "return"
       /\ ret.value.status_code \in { 200, 404 }
       /\ ret.value.status_code = 404 <=>
            \/ ~exists(inv, OptionsDir)
            \/ \A n \in Range(SkuIndexes) : ~Stocked(n)
       /\ ret.value.status_code = 200 =>
            /\ Len(g) \in 1..3
            /\ ret.value.mapped_size = OptionsResolved.value
            /\ \A i, j \in 1..Len(g) : i < j => g[i].sku_index < g[j].sku_index
            /\ \A n \in Range(SkuIndexes) :
                 Stocked(n) <=> \E i \in 1..Len(g) : g[i].sku_index = n
            /\ \A i \in 1..Len(g) :
                 /\ g[i].sku_index \in Range(SkuIndexes)
                 /\ g[i].path = path_join(OptionsDir, g[i].filename)
                 /\ Contains(g[i].filename, Formatted(OptionsResolved.value))
                 /\ \E e \in exts :
                      /\ g[i].path = OptionsFile(g[i].sku_index, e)
                      /\ exists(inv, g[i].path)
                      /\ \A f \in 1..(e - 1) :
                           ~exists(inv, OptionsFile(g[i].sku_index, f))
       /\ p # << >> /\ p[1] = OptionsDir
       /\ exists(inv, OptionsDir) =>
            /\ p[2] = OptionsFile(1, 1)
            /\ \A n \in Range(SkuIndexes) :
                 \E i \in 2..Len(p) : ProbeKey(p[i])[1] = n
            /\ \A i, j \in 2..Len(p) :
                 i < j => KeyLeq(ProbeKey(p[i]), ProbeKey(p[j]))

\* from the inventory where sku 1 has a .jpeg and a .png and sku 2 nothing:
\* two garments, the first one the .jpeg
C15_Witness ==
  /\ OptionsSizeFound
  /\ call.inventory = "partial"
  /\ ret.kind = "return" /\ ret.value.status_code = 200
  /\ Len(ret.value.garments) = 2
  /\ ret.value.garments[1].path = OptionsFile(1, 1)
  /\ ret.value.garments[2].sku_index = 3

\* the request in hand with category, gender and target brand spelled
\* another way that the resolver normalizes to the same keys
OptionsRespelled(sp) ==
  [ call.args EXCEPT
      !.category = Respelled(IF sp.hyphen THEN Hyphenated(cat_key(@))
                                          ELSE cat_key(@), sp),
      !.gender = Respelled(gen_key(@), sp),
      !.target_brand = Respelled(brand_key(@), sp) ]

(***************************************************************************)
(* C16: the inventory lookup follows the resolver's normalization: a       *)
(* request and any respelling of its category, gender and target brand     *)
(* that the resolver maps to the same keys probe the same paths of the     *)
(* same file system and get the same answer.                               *)
(***************************************************************************)
C16_LookupFollowsNormalization ==
  OptionsReturned =>
    \A sp \in Spellings :
      LET b == OptionsRespelled(sp)
      IN /\ ProbedPaths(category_size_map, Inventories[call.inventory], b.gender,
                        b.category, b.current_brand, b.current_size,
                        b.target_brand) = call.probes
         /\ get_garment_options(category_size_map, Inventories[call.inventory],
                                b.gender, b.category, b.current_brand,
                                b.current_size, b.target_brand) = ret

\* gender "Male", category "Tshirts": size resolved, the stocked folder of
\* male/tshirts not found, while the lower-case spelling lists its garments
C16_RespelledRequestMissesFolder ==
  /\ OptionsSizeFound
  /\ call.inventory = "full"
  /\ call.args.gender = Cased(male, "capitalized")
  /\ call.args.category = Cased(tshirts, "capitalized")
  /\ ret = Return(JSONResponse(404, "Inventory folder missing"))
  /\ LET b == OptionsRespelled([ case |-> "lower", pad |-> 0, hyphen |-> FALSE ])
     IN get_garment_options(category_size_map, Inventories["full"], b.gender,
                            b.category, b.current_brand, b.current_size,
                            b.target_brand).value.status_code = 200

(***************************************************************************)
(* POST /generate-tryon: the request is followed statement by statement,   *)
(* from the loading of its two images through the retry loop around        *)
(* client.models.generate_content.                                         *)
(***************************************************************************)
\* max_retries = 3
max_retries == 3

\* raise HTTPException(status_code=..., detail=...)
HTTPException(status_code, detail) ==
  [ kind |-> "raise",
    value |-> [ type |-> "HTTPException", status_code |-> status_code,
                detail |-> detail ] ]

\* return Response(content=..., media_type="image/png"): status 200
Response(content) ==
  Return([ type |-> "Response", status_code |-> 200, content |-> content,
           media_type |-> "image/png" ])

\* what a request can submit and find on disk: an upload that is an image,
\* one that is not, or none; the default model and the garment file each
\* missing, an image, or a file that is no image
Forms ==
  [ user_image : { "none", "image", "corrupt" },
    default_model : { "missing", "image", "corrupt" },
    garment : { "missing", "image", "corrupt" } ]

\* Image.open on a file or on uploaded bytes
Image_open(what) ==
  IF what = "image" THEN Return(PyStr(<< "img" >>))
  ELSE Raise("UnidentifiedImageError")

\* a loader that takes whatever it is given for an image
user_img_anything_goes(form) == Return(PyStr(<< "img" >>))

\* the try block that loads user_img
user_img(form) ==
  IF form.user_image # "none" THEN Image_open(form.user_image)
  ELSE IF form.default_model = "missing" THEN Raise("FileNotFoundError")
  ELSE Image_open(form.default_model)

\* the outside calls of that try block
user_img_events(form) ==
  IF form.user_image # "none"
  THEN << [ ev |-> "read", arg |-> "user_image" ],
          [ ev |-> "open", arg |-> "user_image" ] >>
  ELSE IF form.default_model = "missing"
  THEN << [ ev |-> "exists", arg |-> "default_path" ] >>
  ELSE << [ ev |-> "exists", arg |-> "default_path" ],
          [ ev |-> "open", arg |-> "default_path" ] >>

\* messages of the errors generate_content can raise
OverloadedCapital == << "M", "o", "d", "e", "l", " ", "O", "v", "e", "r", "l", "o", "a", "d", "e", "d" >>

NoImageData == << "N", "o", " ", "i", "m", "a", "g", "e", " ", "d", "a", "t", "a", " ", "i", "n", " ", "G", "e", "m", "i", "n", "i", " ", "r", "e", "s", "p", "o", "n", "s", "e", "." >>

Messages ==
  { OverloadedCapital,
    << "5", "0", "3", " ", "U", "N", "A", "V", "A", "I", "L", "A", "B", "L", "E" >>,
    << "T", "h", "e", " ", "m", "o", "d", "e", "l", " ", "i", "s", " ", "o", "v", "e", "r", "l", "o", "a", "d", "e", "d" >>,
    << "5", "0", "0", " ", "I", "N", "T", "E", "R", "N", "A", "L" >>,
    << "l", "i", "m", "i", "t", " ", "o", "f", " ", "1", "5", "0", "0", "0", " ", "t", "o", "k", "e", "n", "s" >>,
    << "4", "2", "9", " ", "R", "E", "S", "O", "U", "R", "C", "E", "_", "E", "X", "H", "A", "U", "S", "T", "E", "D" >>,
    << "4", "0", "0", " ", "I", "N", "V", "A", "L", "I", "D", "_", "A", "R", "G", "U", "M", "E", "N", "T" >> }

\* parts of a response: text, or inline image data
TextPart == [ text |-> "caption", inline_data |-> "None" ]

ImagePart == [ text |-> "None", inline_data |-> "png" ]

\* the ways one call of generate_content can end
GeminiOutcomes ==
  { [ kind |-> "raise", message |-> m ] : m \in Messages }
  \cup { [ kind |-> "response", candidates |-> c ] :
           c \in { << >>,
                   << [ parts |-> << >> ] >>,
                   << [ parts |-> << TextPart >> ] >>,
                   << [ parts |-> << ImagePart >> ] >>,
                   << [ parts |-> << TextPart, ImagePart >> ] >>,
                   << [ parts |-> << TextPart, ImagePart >> ],
                      [ parts |-> << TextPart >> ] >> } }

\* the parts of the first candidate that carry inline data
InlineParts(response) ==
  IF response.candidates = << >> THEN {}
  ELSE { i \in 1..Len(response.candidates[1].parts) :
           response.candidates[1].parts[i].inline_data # "None" }

\* the body of the try block after the call: the data returned, or the
\* message of the exception raised
TryBody(o) ==
  IF o.kind = "raise" THEN Raise(o.message)
  ELSE IF InlineParts(o) # {}
  THEN Response(o.candidates[1].parts[CHOOSE i \in InlineParts(o) :
                                        \A j \in InlineParts(o) : i <= j].inline_data)
  ELSE Raise(NoImageData)

\* a test that takes every error for a busy server
retriable_every_error(msg) == TRUE

\* "503" in error_str or "overloaded" in error_str.lower() or "500" in error_str
retriable(msg) ==
  \/ Contains(msg, << "5", "0", "3" >>)
  \/ Contains(lower(msg), << "o", "v", "e", "r", "l", "o", "a", "d", "e", "d" >>)
  \/ Contains(msg, << "5", "0", "0" >>)

\* a wait of three seconds whatever the attempt
wait_time_flat(k) == 3

\* wait_time = (attempt + 1) * 3
wait_time(k) == (k + 1) * 3

\* the retriable branch: time.sleep(wait_time)
AfterRetriable(events, k) ==
  Append(events, [ ev |-> "sleep", arg |-> wait_time(k) ])

\* a request arrives
Request(form) ==
  /\ t_pc = "idle"
  /\ t_pc' = "load_user"
  /\ t_form' = form
  /\ UNCHANGED << attempt, error_str, t_events, t_ret >>
  /\ UNCHANGED << category_size_map, legacy_size_map, seq_vars, conc_vars, load_vars,
               color_vars >>

\* --- Load User Image ---
LoadUserImage ==
  /\ t_pc = "load_user"
  /\ t_events' = t_events \o user_img_events(t_form)
  /\ IF user_img(t_form).kind = "raise"
     THEN /\ t_ret' = HTTPException(400, << "User Image Error: ",
                                           user_img(t_form).value.type >>)
          /\ t_pc' = "done"
     ELSE /\ t_pc' = "load_garment"
          /\ UNCHANGED t_ret
  /\ UNCHANGED << t_form, attempt, error_str >>
  /\ UNCHANGED << category_size_map, legacy_size_map, seq_vars, conc_vars, load_vars,
               color_vars >>

\* --- Load Garment Image ---; Image.open stands outside every try
LoadGarmentImage ==
  /\ t_pc = "load_garment"
  /\ IF t_form.garment = "missing"
     THEN /\ t_events' = Append(t_events, [ ev |-> "exists", arg |-> "garment_path" ])
          /\ t_ret' = HTTPException(404, << "Selected garment file missing" >>)
          /\ t_pc' = "done"
     ELSE /\ t_events' = t_events \o << [ ev |-> "exists", arg |-> "garment_path" ],
                                        [ ev |-> "open", arg |-> "garment_path" ] >>
          /\ IF Image_open(t_form.garment).kind = "raise"
             THEN t_ret' = Image_open(t_form.garment) /\ t_pc' = "done"
             ELSE t_pc' = "loop" /\ UNCHANGED t_ret
  /\ attempt' = 0
  /\ UNCHANGED << t_form, error_str >>
  /\ UNCHANGED << category_size_map, legacy_size_map, seq_vars, conc_vars, load_vars,
               color_vars >>

\* one pass through the try block of the loop, generate_content ending as o
GenerateContent(o) ==
  /\ t_pc = "loop"
  /\ attempt < max_retries
  /\ t_events' = Append(t_events,
                        [ ev |-> "generate_content", arg |-> attempt + 1,
                          raised |-> IF TryBody(o).kind = "return" THEN << >>
                                     ELSE TryBody(o).value.type ])
  /\ IF TryBody(o).kind = "return"
     THEN /\ t_ret' = TryBody(o)
          /\ t_pc' = "done"
          /\ UNCHANGED error_str
     ELSE /\ error_str' = TryBody(o).value.type
          /\ t_pc' = "except"
          /\ UNCHANGED t_ret
  /\ UNCHANGED << t_form, attempt >>
  /\ UNCHANGED << category_size_map, legacy_size_map, seq_vars, conc_vars, load_vars,
               color_vars >>

\* except Exception as e: sleep and go on, or give the error out
HandleException ==
  /\ t_pc = "except"
  /\ IF retriable(error_str)
     THEN /\ t_events' = AfterRetriable(t_events, attempt)
          /\ attempt' = attempt + 1
          /\ t_pc' = "loop"
          /\ UNCHANGED t_ret
     ELSE /\ t_ret' = HTTPException(500, << "AI Engine Error: " >> \o error_str)
          /\ t_pc' = "done"
          /\ UNCHANGED << t_events, attempt >>
  /\ UNCHANGED << t_form, error_str >>
  /\ UNCHANGED << category_size_map, legacy_size_map, seq_vars, conc_vars, load_vars,
               color_vars >>

\* the loop has run out: raise HTTPException(status_code=503, ...)
RetriesExhausted ==
  /\ t_pc = "loop"
  /\ attempt >= max_retries
  /\ t_ret' = HTTPException(503, << "Server is currently overloaded. Please wait 1 minute and try again." >>)
  /\ t_pc' = "done"
  /\ UNCHANGED << t_form, attempt, error_str, t_events >>
  /\ UNCHANGED << category_size_map, legacy_size_map, seq_vars, conc_vars, load_vars,
               color_vars >>

NextTryOn ==
  \/ \E form \in Forms : Request(form)
  \/ LoadUserImage
  \/ LoadGarmentImage
  \/ \E o \in GeminiOutcomes : GenerateContent(o)
  \/ HandleException
  \/ RetriesExhausted

SpecTryOn == Init /\ [][NextTryOn]_vars

(***************************************************************************)
(* POST /generate-tryon: what a request has done so far.                   *)
(***************************************************************************)
\* the positions of the generate_content calls and of the sleeps
CallsAt == { i \in 1..Len(t_events) : t_events[i].ev = "generate_content" }

SleepsAt == { i \in 1..Len(t_events) : t_events[i].ev = "sleep" }

\* the positions where a file or the upload is looked for, read or opened
FilesAt == { i \in 1..Len(t_events) : t_events[i].ev \in { "exists", "read", "open" } }

TryOnDone == t_pc = "done"

\* the request was answered with this HTTP error
Answered(status_code) ==
  /\ TryOnDone
  /\ t_ret.kind = "raise"
  /\ t_ret.value.type = "HTTPException"
  /\ t_ret.value.status_code = status_code

\* the request was answered with the image
AnsweredImage ==
  /\ TryOnDone
  /\ t_ret.kind = "return"
  /\ t_ret.value.status_code = 200
  /\ t_ret.value.content = "png"

\* the message names a busy server: it holds "503" or "500", or, in
\* whatever letter case, "overloaded"
Busy(msg) ==
  \/ \E i \in 1..(Len(msg) - 2) :
       msg[i] = "5" /\ msg[i + 1] = "0" /\ msg[i + 2] \in { "0", "3" }
  \/ \E i \in 0..(Len(msg) - 10) :
       lower(SubSeq(msg, i + 1, i + 10))
         = << "o", "v", "e", "r", "l", "o", "a", "d", "e", "d" >>

(***************************************************************************)
(* C17: the retry loop ends after at most 3 generate_content calls, in     *)
(* exactly one of: 200 with the image of the first call that returned      *)
(* inline image data, 500 after an error that does not name a busy         *)
(* server, or 503 after 3 calls that each failed with one that does; the   *)
(* busy failure of call k is followed by a sleep of 3*k seconds, the last  *)
(* one included.  No state short of the answer is stuck, and every step    *)
(* of the loop adds a call or a sleep or answers.                          *)
(***************************************************************************)
C17_RetryLoopEnds ==
  /\ Cardinality(CallsAt) <= 3
  /\ \A i \in CallsAt : t_events[i].arg = Cardinality({ j \in CallsAt : j <= i })
  /\ \A i \in SleepsAt :
       /\ i - 1 \in CallsAt
       /\ Busy(t_events[i - 1].raised)
       /\ t_events[i].arg = 3 * t_events[i - 1].arg
  /\ \A i \in CallsAt :
       (i < Len(t_events) \/ (t_pc = "loop" /\ i = Len(t_events))) =>
         /\ i + 1 \in SleepsAt
         /\ t_events[i].raised # << >>
  /\ ~TryOnDone => ENABLED NextTryOn
  /\ (TryOnDone /\ CallsAt # {}) =>
       LET last == t_events[Len(t_events)]
       IN /\ AnsweredImage \/ Answered(500) \/ Answered(503)
          /\ AnsweredImage <=> (last.ev = "generate_content" /\ last.raised = << >>)
          /\ Answered(500) <=>
               /\ last.ev = "generate_content"
               /\ last.raised # << >>
               /\ ~Busy(last.raised)
          /\ Answered(503) <=>
               /\ Cardinality(CallsAt) = 3
               /\ last.ev = "sleep" /\ last.arg = 9
               /\ \A i \in CallsAt : Busy(t_events[i].raised)

\* three busy calls, sleeps of 3, 6 and 9 seconds, then 503
C17_Witness ==
  /\ Answered(503)
  /\ [ i \in 1..Cardinality(SleepsAt) |->
         t_events[CHOOSE j \in SleepsAt :
                    Cardinality({ k \in SleepsAt : k <= j }) = i].arg ] = << 3, 6, 9 >>
  /\ t_events[Len(t_events) - 1].raised = OverloadedCapital

(***************************************************************************)
(* C18: a failure that does not name a busy server ends the loop at once:  *)
(* after a call that raised such an error, or returned no inline image     *)
(* data, there is no further call and no sleep, and the answer is HTTP     *)
(* 500 "AI Engine Error: <message>".                                       *)
(***************************************************************************)
C18_OtherFailureEndsLoop ==
  \A i \in CallsAt :
    (t_events[i].raised # << >> /\ ~Busy(t_events[i].raised)) =>
      /\ i = Len(t_events)
      /\ t_pc \in { "except", "done" }
      /\ error_str = t_events[i].raised
      /\ TryOnDone =>
           /\ Answered(500)
           /\ t_ret.value.detail = << "AI Engine Error: " >> \o t_events[i].raised

\* the second call returns text only, after a busy first one
C18_Witness ==
  /\ Answered(500)
  /\ Cardinality(CallsAt) = 2
  /\ t_events[Len(t_events)].raised = NoImageData

\* the user image cannot be loaded; the garment file is not there
UserImageFails ==
  \/ t_form.user_image = "corrupt"
  \/ t_form.user_image = "none" /\ t_form.default_model # "image"

GarmentMissing == t_form.garment = "missing"

(***************************************************************************)
(* C19: generate_content is called only after both images are loaded: a    *)
(* user image that cannot be loaded (upload or default model) is answered  *)
(* with 400, a missing garment file with 404, the user image is dealt      *)
(* with before the garment file is looked at, and neither error case       *)
(* makes a Gemini call.                                                    *)
(***************************************************************************)
C19_NoCallBeforeBothLoaded ==
  /\ CallsAt # {} => ~UserImageFails /\ t_form.garment = "image"
  /\ \A i \in FilesAt :
       t_events[i].arg = "garment_path" =>
         /\ ~UserImageFails
         /\ \E j \in FilesAt :
              j < i /\ t_events[j].arg \in { "user_image", "default_path" }
  /\ \A i \in CallsAt :
       \E j \in FilesAt :
         j < i /\ t_events[j].ev = "open" /\ t_events[j].arg = "garment_path"
  /\ (TryOnDone /\ UserImageFails) => Answered(400) /\ CallsAt = {}
  /\ (TryOnDone /\ ~UserImageFails /\ GarmentMissing) =>
       Answered(404) /\ CallsAt = {}
  /\ Answered(400) => UserImageFails
  /\ Answered(404) => GarmentMissing

\* no upload, the default model loaded, the garment file missing: 404
C19_Witness ==
  /\ Answered(404)
  /\ t_events = << [ ev |-> "exists", arg |-> "default_path" ],
                   [ ev |-> "open", arg |-> "default_path" ],
                   [ ev |-> "exists", arg |-> "garment_path" ] >>

(***************************************************************************)
(* pipeline._load_image_from_url: one pass of the loop per step.           *)
(***************************************************************************)
\* the exception classes that can come out of the try block, each with the
\* classes it inherits from (requests.exceptions, PIL, builtins)
Bases ==
  [ ReadTimeout |-> { "ReadTimeout", "Timeout", "RequestException", "OSError",
                      "Exception" },
    ConnectTimeout |-> { "ConnectTimeout", "ConnectionError", "Timeout",
                         "RequestException", "OSError", "Exception" },
    ConnectionError |-> { "ConnectionError", "RequestException", "OSError",
                          "Exception" },
    SSLError |-> { "SSLError", "ConnectionError", "RequestException", "OSError",
                   "Exception" },
    HTTPError |-> { "HTTPError", "RequestException", "OSError", "Exception" },
    TooManyRedirects |-> { "TooManyRedirects", "RequestException", "OSError",
                           "Exception" },
    UnidentifiedImageError |-> { "UnidentifiedImageError", "OSError", "Exception" },
    ValueError |-> { "ValueError", "Exception" } ]

\* isinstance(exc, classes)
isinstance(exc, classes) == Bases[exc] \cap classes # {}

\* how one pass through the try block can end: an image of some mode
\* downloaded and opened, or an exception out of requests.get,
\* raise_for_status, Image.open or convert
TryOutcomes ==
  { [ kind |-> "image", mode |-> m ] : m \in { "RGB", "RGBA", "P" } }
  \cup { [ kind |-> "raise", exc |-> x ] : x \in DOMAIN Bases }

\* img.convert("RGB")
convert(img, mode) == [ img EXCEPT !.mode = mode ]

\* except clauses that send every exception back into the loop
except_clause_all_continue(exc) == "continue"

\* the except clause that takes the exception, by what it ends with
except_clause(exc) ==
  IF isinstance(exc, { "Timeout", "ConnectionError" }) THEN "continue"
  ELSE IF isinstance(exc, { "RequestException" }) THEN "break"
  ELSE IF isinstance(exc, { "Exception" }) THEN "break"
  ELSE "propagate"

\* for attempt in range(1, max_retries + 1): where the loop stands once
\* attempt k is to start
range_next(k, n) == IF k <= n THEN "loop" ELSE "after_loop"

LoadArgs == [ url : { << "u" >> }, max_retries : 0..MaxRetriesArg ]

\* _load_image_from_url is called
LoadImage(a) ==
  /\ l_pc = "idle"
  /\ l_args' = a
  /\ l_attempt' = 1
  /\ l_pc' = range_next(1, a.max_retries)
  /\ UNCHANGED << l_events, l_ret >>
  /\ UNCHANGED << category_size_map, legacy_size_map, seq_vars, conc_vars, tryon_vars,
               color_vars >>

\* one pass of the loop: the request of this attempt, ending as o
Attempt(o) ==
  /\ l_pc = "loop"
  /\ l_events' = Append(l_events, [ ev |-> "get", attempt |-> l_attempt, ended |-> o ])
  /\ IF o.kind = "image"
     THEN /\ l_ret' = Return(convert([ type |-> "Image", mode |-> o.mode,
                                        url |-> l_args.url ], "RGB"))
          /\ l_pc' = "done"
          /\ UNCHANGED l_attempt
     ELSE /\ CASE except_clause(o.exc) = "continue" ->
                    /\ l_attempt' = l_attempt + 1
                    /\ l_pc' = range_next(l_attempt + 1, l_args.max_retries)
                    /\ UNCHANGED l_ret
               [] except_clause(o.exc) = "break" ->
                    /\ l_pc' = "after_loop"
                    /\ UNCHANGED << l_attempt, l_ret >>
               [] OTHER ->
                    /\ l_ret' = Raise(o.exc)
                    /\ l_pc' = "done"
                    /\ UNCHANGED l_attempt
  /\ UNCHANGED l_args
  /\ UNCHANGED << category_size_map, legacy_size_map, seq_vars, conc_vars, tryon_vars,
               color_vars >>

\* after the loop: return None
ReturnNone ==
  /\ l_pc = "after_loop"
  /\ l_ret' = Return(PyNone)
  /\ l_pc' = "done"
  /\ UNCHANGED << l_args, l_attempt, l_events >>
  /\ UNCHANGED << category_size_map, legacy_size_map, seq_vars, conc_vars, tryon_vars,
               color_vars >>

NextLoad ==
  \/ \E a \in LoadArgs : LoadImage(a)
  \/ \E o \in TryOutcomes : Attempt(o)
  \/ ReturnNone

SpecLoad == Init /\ [][NextLoad]_vars

\* the exceptions that are a timeout or a connection error
TimeoutOrConnection == { "ReadTimeout", "ConnectTimeout", "ConnectionError", "SSLError" }

\* the request at position i ended in such an error
EndedRetriable(i) ==
  /\ l_events[i].ended.kind = "raise"
  /\ l_events[i].ended.exc \in TimeoutOrConnection

(***************************************************************************)
(* C20: _load_image_from_url makes at most max_retries requests; a         *)
(* further request follows only a timeout or a connection error; an HTTP   *)
(* status error or any other exception is the last request; the first      *)
(* successful attempt ends the call with its image converted to RGB; in    *)
(* every other case the call returns None, and it never raises.            *)
(***************************************************************************)
C20_BoundedRetriesThenNone ==
  /\ Len(l_events) <= l_args.max_retries
  /\ \A i \in 1..Len(l_events) :
       /\ l_events[i].attempt = i
       /\ i < Len(l_events) => EndedRetriable(i)
       /\ ~EndedRetriable(i) => l_pc \in { "after_loop", "done" }
  /\ l_pc \in { "loop", "after_loop" } => ENABLED NextLoad
  /\ l_pc = "done" =>
       /\ l_ret.kind = "return"
       /\ IF l_events # << >> /\ l_events[Len(l_events)].ended.kind = "image"
          THEN l_ret.value = [ type |-> "Image", mode |-> "RGB", url |-> l_args.url ]
          ELSE l_ret.value = PyNone

\* two timeouts, then a palette image: returned as RGB from the third request
C20_Witness ==
  /\ l_pc = "done"
  /\ Len(l_events) = 3
  /\ l_events[1].ended.exc = "ReadTimeout"
  /\ l_events[2].ended.exc = "SSLError"
  /\ l_events[3].ended = [ kind |-> "image", mode |-> "P" ]
  /\ l_ret.value.mode = "RGB"

(***************************************************************************)
(* ColorMatchAgent.get_verdict: the chain is invoked with the two colours  *)
(* and its output raw is normalized to one of two verdicts.                *)
(***************************************************************************)
Match == << "M", "a", "t", "c", "h" >>
Mismatch == << "M", "i", "s", "m", "a", "t", "c", "h" >>

\* outputs of the model: the two words asked for and others, in several
\* letter cases and with blanks or a line end around them
AgentWords ==
  { Match, Mismatch,
    << "m", "a", "t", "c", "h", "i", "n", "g", " ", "s", "h", "a", "d", "e" >>,
    << "u", "n", "m", "a", "t", "c", "h", "e", "d" >>,
    << "a", " ", "m", "a", "t", "c", "h", ",", " ", "I", " ", "p", "r", "o", "m", "i", "s", "e" >>,
    << "m", "i", "s" >>,
    << "s", "a", "m", "e" >>,
    << "\"", "M", "a", "t", "c", "h", "\"", "." >>,
    << >> }

AgentOutputs ==
  { Padded(Cased(w, c), n) : w \in AgentWords,
                             c \in { "asis", "lower", "upper" }, n \in 0..MaxPad }
  \cup { w \o << "\n" >> : w \in AgentWords }

\* the colours a caller passes: str, or the None a detector result can hold
blue == << "b", "l", "u", "e" >>

navy_blue == << "n", "a", "v", "y", " ", "b", "l", "u", "e" >>

unknown == << "u", "n", "k", "n", "o", "w", "n" >>

\* x.strip() on what may not be a str
strip_of(obj) ==
  IF obj.type = "str" THEN Return(PyStr(strip(obj.v))) ELSE Raise("AttributeError")

\* a normalization that looks for "match" alone
get_verdict_mis_ignored(expected_color, detected_color, raw) ==
  IF strip_of(expected_color).kind = "raise" THEN strip_of(expected_color)
  ELSE IF strip_of(detected_color).kind = "raise" THEN strip_of(detected_color)
  ELSE IF Contains(lower(strip(raw)), lower(Match)) THEN Return(PyStr(Match))
  ELSE Return(PyStr(Mismatch))

\* get_verdict, the chain answering raw
get_verdict(expected_color, detected_color, raw) ==
  LET normalized == lower(strip(raw))
  IN IF strip_of(expected_color).kind = "raise" THEN strip_of(expected_color)
     ELSE IF strip_of(detected_color).kind = "raise" THEN strip_of(detected_color)
     ELSE IF /\ Contains(normalized, << "m", "a", "t", "c", "h" >>)
             /\ ~Contains(normalized, << "m", "i", "s" >>)
       THEN Return(PyStr(Match))
     ELSE IF Contains(normalized, << "m", "i", "s", "m", "a", "t", "c", "h" >>)
       THEN Return(PyStr(Mismatch))
     ELSE Return(PyStr(Mismatch))

AgentColors == { PyStr(blue), PyStr(Padded(navy_blue, 1)), PyStr(unknown), PyNone }

\* one call of get_verdict
GetVerdict(expected_color, detected_color, raw) ==
  /\ a_call' = [ fn |-> "get_verdict", expected_color |-> expected_color,
                 detected_color |-> detected_color, raw |-> raw ]
  /\ a_ret' = get_verdict(expected_color, detected_color, raw)
  /\ UNCHANGED << category_size_map, legacy_size_map, seq_vars, conc_vars,
                  tryon_vars, load_vars, pipeline_vars >>

NextAgent ==
  \E expected_color \in AgentColors \ { PyNone }, detected_color \in AgentColors,
     raw \in AgentOutputs :
    GetVerdict(expected_color, detected_color, raw)

SpecAgent == Init /\ [][NextAgent]_vars

\* get_verdict was called with two str colours
VerdictAsked ==
  /\ a_call.fn = "get_verdict"
  /\ a_call.expected_color.type = "str"
  /\ a_call.detected_color.type = "str"

\* the word, in any letter case, somewhere in the output
Has(raw, word) ==
  \E i \in 1..(Len(raw) - Len(word) + 1) :
    \A k \in 1..Len(word) : lower_char(raw[i + k - 1]) = word[k]

(***************************************************************************)
(* C23: get_verdict returns "Match" or "Mismatch" and nothing else         *)
(* whatever the model put out: "Match" exactly when the output, trimmed    *)
(* and lower-cased, holds "match" and does not hold "mis"; "Mismatch"      *)
(* otherwise, an empty or unrelated output included.                       *)
(***************************************************************************)
C23_VerdictIsMatchOrMismatch ==
  VerdictAsked =>
    /\ a_ret \in { Return(PyStr(Match)), Return(PyStr(Mismatch)) }
    /\ a_ret = Return(PyStr(Match)) <=>
         /\ Has(strip(a_call.raw), << "m", "a", "t", "c", "h" >>)
         /\ ~Has(strip(a_call.raw), << "m", "i", "s" >>)

\* " MATCH " is trimmed and lower-cased to a Match
C23_Witness ==
  /\ VerdictAsked
  /\ a_call.raw = << " ", "M", "A", "T", "C", "H", " " >>
  /\ a_ret = Return(PyStr(Match))

(***************************************************************************)
(* ClipColorDetector.detect_color and its GPT fallback.  Confidences are   *)
(* written in hundredths: 0.25 is 25.                                      *)
(***************************************************************************)
COLOR_CANDIDATES ==
  << << "b", "l", "a", "c", "k" >>,
     << "w", "h", "i", "t", "e" >>,
     << "o", "f", "f", " ", "w", "h", "i", "t", "e" >>,
     << "c", "r", "e", "a", "m" >>,
     << "i", "v", "o", "r", "y" >>,
     << "g", "r", "a", "y" >>,
     << "l", "i", "g", "h", "t", " ", "g", "r", "a", "y" >>,
     << "d", "a", "r", "k", " ", "g", "r", "a", "y" >>,
     << "c", "h", "a", "r", "c", "o", "a", "l" >>,
     << "s", "i", "l", "v", "e", "r" >>,
     << "b", "e", "i", "g", "e" >>,
     << "t", "a", "n" >>,
     << "b", "r", "o", "w", "n" >>,
     << "d", "a", "r", "k", " ", "b", "r", "o", "w", "n" >>,
     << "b", "l", "u", "e" >>,
     << "n", "a", "v", "y", " ", "b", "l", "u", "e" >>,
     << "r", "o", "y", "a", "l", " ", "b", "l", "u", "e" >>,
     << "s", "k", "y", " ", "b", "l", "u", "e" >>,
     << "l", "i", "g", "h", "t", " ", "b", "l", "u", "e" >>,
     << "t", "e", "a", "l" >>,
     << "t", "u", "r", "q", "u", "o", "i", "s", "e" >>,
     << "r", "e", "d" >>,
     << "d", "a", "r", "k", " ", "r", "e", "d" >>,
     << "b", "u", "r", "g", "u", "n", "d", "y" >>,
     << "m", "a", "r", "o", "o", "n" >>,
     << "p", "i", "n", "k" >>,
     << "l", "i", "g", "h", "t", " ", "p", "i", "n", "k" >>,
     << "h", "o", "t", " ", "p", "i", "n", "k" >>,
     << "g", "r", "e", "e", "n" >>,
     << "d", "a", "r", "k", " ", "g", "r", "e", "e", "n" >>,
     << "o", "l", "i", "v", "e", " ", "g", "r", "e", "e", "n" >>,
     << "m", "i", "n", "t", " ", "g", "r", "e", "e", "n" >>,
     << "l", "i", "m", "e", " ", "g", "r", "e", "e", "n" >>,
     << "y", "e", "l", "l", "o", "w" >>,
     << "m", "u", "s", "t", "a", "r", "d", " ", "y", "e", "l", "l", "o", "w" >>,
     << "g", "o", "l", "d" >>,
     << "o", "r", "a", "n", "g", "e" >>,
     << "b", "u", "r", "n", "t", " ", "o", "r", "a", "n", "g", "e" >>,
     << "p", "u", "r", "p", "l", "e" >>,
     << "l", "a", "v", "e", "n", "d", "e", "r" >>,
     << "v", "i", "o", "l", "e", "t" >>,
     << "r", "o", "s", "e", " ", "g", "o", "l", "d" >>,
     << "s", "i", "l", "v", "e", "r", " ", "m", "e", "t", "a", "l", "l", "i", "c" >>,
     << "g", "o", "l", "d", " ", "m", "e", "t", "a", "l", "l", "i", "c" >>,
     << "m", "u", "l", "t", "i", "c", "o", "l", "o", "r" >> >>

\* confidence_threshold: float = 0.25
confidence_threshold == 25

\* a float, and float(x)
PyFloat(hundredths) == [ type |-> "float", v |-> Dec(hundredths) ]

float(obj) ==
  IF obj.type = "float" THEN Return(obj)
  ELSE IF obj.type = "NoneType" THEN Raise("TypeError")
  ELSE Raise("ValueError")

\* str(x) of a str or of None
str(obj) == IF obj.type = "str" THEN obj.v ELSE << "N", "o", "n", "e" >>

\* what the vision model answers: text that is no JSON, a JSON object with
\* the detected_color it names (null or absent: None), or JSON that is no
\* object
GptOutputs ==
  { [ kind |-> "text", raw |-> << "I", " ", "t", "h", "i", "n", "k", " ", "i", "t", " ", "i", "s", " ", "N", "a", "v", "y", " ", "B", "l", "u", "e" >> ],
    [ kind |-> "text", raw |-> << "c", "a", "n", "n", "o", "t", " ", "t", "e", "l", "l" >> ],
    [ kind |-> "json", detected_color |-> PyStr(navy_blue) ],
    [ kind |-> "json", detected_color |-> PyStr(upper(navy_blue)) ],
    [ kind |-> "json", detected_color |-> PyStr(<< "c", "r", "i", "m", "s", "o", "n" >>) ],
    [ kind |-> "json", detected_color |-> PyNone ],
    [ kind |-> "json_list" ] }

\* the first of the candidates at the positions hits, as a str, or None
FirstCandidate(hits) ==
  IF hits = {} THEN PyNone
  ELSE PyStr(COLOR_CANDIDATES[CHOOSE i \in hits : \A j \in hits : i <= j])

\* the dict detect_color returns
DetectResult(detected_color, detected_confidence, fallback_model) ==
  Return([ detected_color |-> detected_color,
           detected_confidence |-> detected_confidence,
           fallback_model |-> fallback_model ])

\* _detect_with_gpt, the model answering g
detect_with_gpt(g) ==
  IF g.kind = "text"
  THEN LET detected ==
             FirstCandidate({ i \in 1..Len(COLOR_CANDIDATES) :
                                Contains(lower(g.raw), lower(COLOR_CANDIDATES[i])) })
       IN DetectResult(IF detected = PyNone THEN PyStr(unknown) ELSE detected,
                       PyNone, "gpt")
  ELSE IF g.kind = "json_list" THEN Raise("AttributeError")
  ELSE LET named ==
             FirstCandidate({ i \in 1..Len(COLOR_CANDIDATES) :
                                lower(COLOR_CANDIDATES[i])
                                  = lower(str(g.detected_color)) })
       IN IF /\ g.detected_color.type = "str"
             /\ g.detected_color.v \in Range(COLOR_CANDIDATES)
          THEN DetectResult(g.detected_color, PyNone, "gpt")
          ELSE DetectResult(IF named = PyNone THEN g.detected_color ELSE named,
                            PyNone, "gpt")

\* what CLIP makes of an image: the best candidate and its probability, or
\* an exception out of the processor or the model
ClipOutcomes ==
  { [ kind |-> "top", detected_color |-> navy_blue, detected_confidence |-> p ] :
      p \in { 10, confidence_threshold, 90 } }
  \cup { [ kind |-> "top", detected_color |-> blue, detected_confidence |-> 90 ],
         [ kind |-> "raise" ] }

\* detect_color with its default arguments (use_fallback_on_failure=True):
\* g1 answers the first call of the fallback, g2 a second one
detect_color(enable_gpt_fallback, clip, g1, g2) ==
  IF clip.kind = "raise"
  THEN IF enable_gpt_fallback THEN detect_with_gpt(g1) ELSE Raise("RuntimeError")
  ELSE IF enable_gpt_fallback /\ clip.detected_confidence < confidence_threshold
  THEN IF detect_with_gpt(g1).kind = "return" THEN detect_with_gpt(g1)
       ELSE detect_with_gpt(g2)
  ELSE DetectResult(PyStr(clip.detected_color), PyFloat(clip.detected_confidence),
                    "clip")

\* the calls of the vision model one detect_color makes
gpt_calls(enable_gpt_fallback, clip, g1) ==
  IF ~enable_gpt_fallback THEN 0
  ELSE IF clip.kind = "raise" THEN 1
  ELSE IF clip.detected_confidence >= confidence_threshold THEN 0
  ELSE IF detect_with_gpt(g1).kind = "return" THEN 1
  ELSE 2

(***************************************************************************)
(* pipeline.process_dataset and hf_pipeline.process_hf_dataset, one        *)
(* statement group of the row loop per step.  The dataset has its colour   *)
(* and image columns, and the models answer when called.                   *)
(***************************************************************************)
url_a == << "h", "t", "t", "p", ":", "/", "/", "a" >>

url_b == << "h", "t", "t", "p", "s", ":", "/", "/", "b" >>

not_a_url == << "n", "/", "a" >>

\* the regular expression https?://[^\s'"|]+ matches the whole item
IsUrl(s) ==
  \/ Len(s) > 7 /\ SubSeq(s, 1, 7) = SubSeq(url_a, 1, 7)
  \/ Len(s) > 8 /\ SubSeq(s, 1, 8) = SubSeq(url_b, 1, 8)

\* the 'images' cell of a row: NaN, blanks, a list literal of items, other
\* text holding items, or a list literal that does not parse
Cells ==
  { [ kind |-> "nan", items |-> << >> ],
    [ kind |-> "blank", items |-> << >> ],
    [ kind |-> "list", items |-> << >> ],
    [ kind |-> "list", items |-> << << >>, url_a >> ],
    [ kind |-> "list", items |-> << url_a, url_b >> ],
    [ kind |-> "list", items |-> << not_a_url >> ],
    [ kind |-> "text", items |-> << not_a_url, url_b >> ],
    [ kind |-> "broken_list", items |-> << url_a, url_b >> ] }

\* _parse_image_urls: a list literal gives its non-empty items, whatever
\* they are; every other text gives the URLs the regular expression finds
parse_image_urls(cell) ==
  LET NonEmpty(item) == item # << >>
  IN IF cell.kind \in { "nan", "blank" } THEN << >>
     ELSE IF cell.kind = "list" THEN SelectSeq(cell.items, NonEmpty)
     ELSE SelectSeq(cell.items, IsUrl)

\* expected_color = str(row.get(color_col, "")).strip()
expected_color == PyStr(strip(Padded(blue, 1)))

\* the three lists with one more entry each
Appended(lists, detected_color, detected_confidence, verdict) ==
  [ detected_colors |-> Append(lists.detected_colors, detected_color),
    detected_confidences |-> Append(lists.detected_confidences, detected_confidence),
    verdicts |-> Append(lists.verdicts, verdict) ]

\* a row without an image passed as a match
AppendedNone_as_match(lists) == Appended(lists, PyNone, PyNone, PyStr(Match))

\* a row for which no image is at hand: None, None, "Mismatch"
AppendedNone(lists) == Appended(lists, PyNone, PyNone, PyStr(Mismatch))

Runs ==
  [ source : { "csv", "hf" }, rows : 0..MaxRows, enable_gpt_fallback : BOOLEAN ]

\* a pipeline is started on a dataset with a detector
StartRun(run) ==
  /\ p_pc = "idle"
  /\ p_run' = run
  /\ p_pc' = "loop"
  /\ UNCHANGED << p_idx, p_lists, p_row, p_out >>
  /\ UNCHANGED << category_size_map, legacy_size_map, seq_vars, conc_vars,
                  tryon_vars, load_vars, agent_vars >>

\* process_dataset takes up the next row and parses its images cell
TakeRow(cell) ==
  /\ p_pc = "loop"
  /\ p_run.source = "csv"
  /\ p_idx < p_run.rows
  /\ p_idx' = p_idx + 1
  /\ p_row' = [ taken |-> "csv", cell |-> cell, urls |-> parse_image_urls(cell),
                loads |-> << >>, saves |-> << >>, first_image |-> 0,
                detect_calls |-> << >>, gpt_calls |-> 0, agent_calls |-> << >>,
                result |-> Return(PyNone) ]
  /\ IF parse_image_urls(cell) = << >>
     THEN p_lists' = AppendedNone(p_lists) /\ p_pc' = "loop"
     ELSE p_pc' = "download" /\ UNCHANGED p_lists
  /\ UNCHANGED << p_run, p_out >>
  /\ UNCHANGED << category_size_map, legacy_size_map, seq_vars, conc_vars,
                  tryon_vars, load_vars, agent_vars >>

\* one pass of the loop over urls: _load_image_from_url gives img ("None"
\* when it failed), a loaded image is saved (saved: whether img.save went
\* through); after the last url the row is closed if no image was loaded
Download(img, saved) ==
  /\ p_pc = "download"
  /\ LET j == Len(p_row.loads) + 1
         first_image == IF p_row.first_image = 0 /\ img # "None" THEN j
                        ELSE p_row.first_image
     IN /\ p_row' = [ p_row EXCEPT
                        !.loads = Append(@, img),
                        !.saves = IF img = "None" THEN @
                                  ELSE Append(@, [ img |-> j, saved |-> saved ]),
                        !.first_image = first_image ]
        /\ IF j < Len(p_row.urls) THEN p_pc' = "download" /\ UNCHANGED p_lists
           ELSE IF first_image = 0
             THEN p_lists' = AppendedNone(p_lists) /\ p_pc' = "loop"
           ELSE p_pc' = "detect" /\ UNCHANGED p_lists
  /\ UNCHANGED << p_run, p_idx, p_out >>
  /\ UNCHANGED << category_size_map, legacy_size_map, seq_vars, conc_vars,
                  tryon_vars, load_vars, agent_vars >>

\* process_hf_dataset takes up the next example and saves its image
TakeExample(saved) ==
  /\ p_pc = "loop"
  /\ p_run.source = "hf"
  /\ p_idx < p_run.rows
  /\ p_idx' = p_idx + 1
  /\ p_row' = [ taken |-> "hf", cell |-> [ kind |-> "image", items |-> << >> ],
                urls |-> << >>, loads |-> << >>,
                saves |-> << [ img |-> 1, saved |-> saved ] >>, first_image |-> 1,
                detect_calls |-> << >>, gpt_calls |-> 0, agent_calls |-> << >>,
                result |-> Return(PyNone) ]
  /\ p_pc' = "detect"
  /\ UNCHANGED << p_run, p_lists, p_out >>
  /\ UNCHANGED << category_size_map, legacy_size_map, seq_vars, conc_vars,
                  tryon_vars, load_vars, agent_vars >>

\* clip_result = detect_color(...); detected_color = clip_result[...];
\* detected_confidence = float(clip_result["detected_confidence"])
detected(clip_result) ==
  IF clip_result.kind = "raise" THEN clip_result
  ELSE IF float(clip_result.value.detected_confidence).kind = "raise"
    THEN float(clip_result.value.detected_confidence)
  ELSE clip_result

\* the detector is called on the row's image; an exception ends the run
Detect(clip, g1, g2) ==
  /\ p_pc = "detect"
  /\ LET clip_result == detect_color(p_run.enable_gpt_fallback, clip, g1, g2)
     IN /\ p_row' = [ p_row EXCEPT
                        !.detect_calls = Append(@, p_row.first_image),
                        !.gpt_calls = gpt_calls(p_run.enable_gpt_fallback, clip, g1),
                        !.result = clip_result ]
        /\ IF detected(clip_result).kind = "raise"
           THEN p_out' = detected(clip_result) /\ p_pc' = "raised"
           ELSE p_pc' = "judge" /\ UNCHANGED p_out
  /\ UNCHANGED << p_run, p_idx, p_lists >>
  /\ UNCHANGED << category_size_map, legacy_size_map, seq_vars, conc_vars,
                  tryon_vars, load_vars, agent_vars >>

\* the agent is asked for the verdict and the row's three entries are
\* appended; an exception ends the run
Judge(raw) ==
  /\ p_pc = "judge"
  /\ LET verdict == get_verdict(expected_color, p_row.result.value.detected_color, raw)
     IN /\ p_row' = [ p_row EXCEPT !.agent_calls = Append(@, raw) ]
        /\ IF verdict.kind = "raise"
           THEN /\ p_out' = verdict
                /\ p_pc' = "raised"
                /\ UNCHANGED p_lists
           ELSE /\ p_lists' = Appended(p_lists, p_row.result.value.detected_color,
                                       p_row.result.value.detected_confidence,
                                       verdict.value)
                /\ p_pc' = "loop"
                /\ UNCHANGED p_out
  /\ UNCHANGED << p_run, p_idx >>
  /\ UNCHANGED << category_size_map, legacy_size_map, seq_vars, conc_vars,
                  tryon_vars, load_vars, agent_vars >>

\* df[...] = the three lists: pandas takes a list as a column only when it
\* has one entry per row
with_columns(rows, lists) ==
  IF \A c \in DOMAIN lists : Len(lists[c]) = rows
  THEN Return([ type |-> "csv", rows |-> rows, columns |-> lists ])
  ELSE Raise("ValueError")

\* after the loop: the columns are set and the CSV is written
WriteCsv ==
  /\ p_pc = "loop"
  /\ p_idx = p_run.rows
  /\ p_out' = with_columns(p_run.rows, p_lists)
  /\ p_pc' = "done"
  /\ UNCHANGED << p_run, p_idx, p_lists, p_row >>
  /\ UNCHANGED << category_size_map, legacy_size_map, seq_vars, conc_vars,
                  tryon_vars, load_vars, agent_vars >>

NextPipeline ==
  \/ \E run \in Runs : StartRun(run)
  \/ \E cell \in Cells : TakeRow(cell)
  \/ \E img \in { "None", "image" }, saved \in BOOLEAN : Download(img, saved)
  \/ \E saved \in BOOLEAN : TakeExample(saved)
  \/ \E clip \in ClipOutcomes, g1 \in GptOutputs,
        g2 \in { g \in GptOutputs : g.kind # "text" } : Detect(clip, g1, g2)
  \/ \E raw \in { Match, Mismatch, << >> } : Judge(raw)
  \/ WriteCsv

SpecPipeline == Init /\ [][NextPipeline]_vars

(***************************************************************************)
(* process_dataset: the row taken up last.                                 *)
(***************************************************************************)
\* a row of the CSV is in hand and the loop over its urls is over
RowDownloaded == p_row.taken = "csv" /\ p_pc # "download"

\* the urls whose download gave an image
LoadedAt == { j \in 1..Len(p_row.loads) : p_row.loads[j] # "None" }

\* the entries the three lists hold for the row in hand
RowEntries ==
  << p_lists.detected_colors[p_idx], p_lists.detected_confidences[p_idx],
     p_lists.verdicts[p_idx] >>

(***************************************************************************)
(* C21: process_dataset downloads every URL of a row, saves each image it  *)
(* loaded and gives the detector the first one only; a row without a       *)
(* parsable URL, or whose downloads all failed, gets detected color None,  *)
(* confidence None and verdict "Mismatch", and neither the detector nor    *)
(* the color agent is called for it.                                       *)
(***************************************************************************)
C21_FirstLoadedImageOnly ==
  p_row.taken = "csv" =>
    /\ Len(p_row.loads) <= Len(p_row.urls)
    /\ { s.img : s \in Range(p_row.saves) } = LoadedAt
    /\ RowDownloaded =>
         /\ Len(p_row.loads) = Len(p_row.urls)
         /\ IF LoadedAt = {}
            THEN /\ p_pc \in { "loop", "done" }
                 /\ p_row.detect_calls = << >>
                 /\ p_row.gpt_calls = 0
                 /\ p_row.agent_calls = << >>
                 /\ \A c \in DOMAIN p_lists : Len(p_lists[c]) = p_idx
                 /\ RowEntries = << PyNone, PyNone, PyStr(<< "M", "i", "s", "m", "a", "t", "c", "h" >>) >>
            ELSE /\ p_row.first_image \in LoadedAt
                 /\ \A j \in LoadedAt : p_row.first_image <= j
                 /\ p_pc = "detect" => p_row.detect_calls = << >>
                 /\ p_pc # "detect" => p_row.detect_calls = << p_row.first_image >>

\* the first row had urls and no download went through; of the second row
\* the first download failed, and the detector got the second image
C21_Witness ==
  /\ p_idx = 2
  /\ p_row.taken = "csv"
  /\ p_lists.detected_colors[1] = PyNone
  /\ p_row.loads = << "None", "image" >>
  /\ p_row.detect_calls = << 2 >>
  /\ p_pc = "judge"

(***************************************************************************)
(* C22: both pipelines end with the CSV written, one detected_color, one   *)
(* detected_confidence and one Verdict per row, whichever way the detector *)
(* came to its result for a row: by CLIP, or by the GPT fallback with      *)
(* detected_confidence None and detected_color possibly None or "unknown". *)
(***************************************************************************)
C22_OneEntryPerRowCsvWritten ==
  /\ (p_row.taken # "none" /\ p_row.result.kind = "return") => p_pc # "raised"
  /\ p_pc \in { "loop", "done" } =>
       \A c \in DOMAIN p_lists : Len(p_lists[c]) = p_idx
  /\ p_pc = "done" =>
       /\ p_out.kind = "return"
       /\ p_out.value.rows = p_run.rows
       /\ \A c \in DOMAIN p_lists : Len(p_out.value.columns[c]) = p_run.rows
  /\ (p_pc = "loop" /\ p_row.taken # "none" /\ p_row.detect_calls # << >>) =>
       /\ p_lists.detected_colors[p_idx] = p_row.result.value.detected_color
       /\ p_row.result.value.fallback_model = "gpt" =>
            p_lists.detected_confidences[p_idx] = PyNone

\* the detector fell back to GPT, whose result has no confidence: float(None)
\* raises TypeError, the run ends there and no CSV is written
C22_FallbackEndsRun ==
  /\ p_pc = "raised"
  /\ p_run.source = "hf"
  /\ p_idx = 1 /\ p_run.rows = 2
  /\ p_row.result.kind = "return"
  /\ p_row.result.value.fallback_model = "gpt"
  /\ p_row.result.value.detected_confidence = PyNone
  /\ p_out = Raise("TypeError")

====
